---------------------------- MODULE Spec2Model ----------------------------
(***************************************************************************)
(* A model of the r-python evaluation core: the expression evaluator       *)
(* `eval` and the statement executor `execute` of                          *)
(* src/interpreter/interpreter.rs over the syntax of src/ir/ast.rs.        *)
(*                                                                         *)
(* Representation.                                                         *)
(*   - i32 values are TLA+ integers in MinI32..MaxI32; the arithmetic      *)
(*     operators below compute the two's-complement result and whether    *)
(*     the exact result left the range.  Rust panics on such an overflow   *)
(*     when the build has overflow checks (the dev and test profiles) and  *)
(*     wraps when it has not (the release profile): the variable           *)
(*     overflowChecks is the profile of the build.                         *)
(*   - f32 values are exact rationals <<n, d>> in lowest terms, d > 0.     *)
(*     Rounding, infinities and NaN are outside the model; the reals the   *)
(*     specifications draw are small dyadic values, on which f32           *)
(*     addition, subtraction and multiplication are exact.  -0.0 and 0.0   *)
(*     are one value (they compare equal in every test the code makes).    *)
(*   - A HashMap used only through get/insert/remove (the Environment) is  *)
(*     a function from the bound names.  The parameter map of a function   *)
(*     is iterated by the code, so it is the sequence of its entries in    *)
(*     the map's iteration order, which the std API leaves arbitrary.      *)
(*   - eval borrows its environment: it returns the pair of its result     *)
(*     and the environment the caller holds afterwards.                    *)
(***************************************************************************)
EXTENDS Integers, Sequences, FiniteSets, TLC

VARIABLES
    env,             \* the environment the caller of eval/execute holds
    inp,             \* the input drawn for the operation under study
    last,            \* the last operation: what ran, on what, with what result
    overflowChecks   \* TRUE: the build panics on i32 overflow; FALSE: it wraps

vars == <<env, inp, last, overflowChecks>>

-----------------------------------------------------------------------------
(* i32 arithmetic                                                          *)

MaxI32 == 2147483647
MinI32 == -MaxI32 - 1

Abs(n) == IF n < 0 THEN -n ELSE n

\* signum() of an i32
Signum(n) == IF n > 0 THEN 1 ELSE IF n < 0 THEN -1 ELSE 0

\* A conversion that takes true as 2
BoolAsI32Two(b) == IF b THEN 2 ELSE 0

\* `b as i32` for a bool
BoolAsI32(b) == IF b THEN 1 ELSE 0

\* a + b leaves the i32 range
AddOverflows(a, b) ==
    \/ b > 0 /\ a > MaxI32 - b
    \/ b < 0 /\ a < MinI32 - b

\* a + b modulo 2^32, in two's complement
WrapAdd(a, b) ==
    IF b > 0 /\ a > MaxI32 - b THEN (a + MinI32) + (b + MinI32)
    ELSE IF b < 0 /\ a < MinI32 - b THEN (a - MinI32) + (b - MinI32)
    ELSE a + b

SubOverflows(a, b) ==
    \/ b < 0 /\ a > MaxI32 + b
    \/ b > 0 /\ a < MinI32 + b

WrapSub(a, b) ==
    IF b < 0 /\ a > MaxI32 + b THEN (a + MinI32) - (b - MinI32)
    ELSE IF b > 0 /\ a < MinI32 + b THEN (a - MinI32) - (b + MinI32)
    ELSE a - b

MulOverflows(a, b) ==
    IF a = 0 \/ b = 0 THEN FALSE
    ELSE IF a = MinI32 THEN b # 1
    ELSE IF b = MinI32 THEN a # 1
    ELSE LET q == MaxI32 \div Abs(b)
         IN  IF (a > 0) = (b > 0)
             THEN Abs(a) > q
             ELSE /\ Abs(a) > q
                  /\ ~(Abs(a) = q + 1 /\ MaxI32 % Abs(b) = Abs(b) - 1)

\* (x << 16) and (x << 8) modulo 2^32, in two's complement
Shl16(x) ==
    LET low == x % 65536
    IN  IF low >= 32768 THEN (low - 65536) * 65536 ELSE low * 65536
Shl8(x) ==
    LET low == x % 16777216
    IN  IF low >= 8388608 THEN (low - 16777216) * 256 ELSE low * 256

\* a * b modulo 2^32, in two's complement, from 16-bit halves:
\* a * b = (a_hi * b_lo + a_lo * b_hi) * 2^16 + a_lo * b_lo  (mod 2^32)
WrapMul(a, b) ==
    LET a_lo == a % 65536
        a_hi == a \div 65536
        b_lo == b % 65536
        b_hi == b \div 65536
        cross == WrapAdd(a_hi * b_lo, a_lo * b_hi)
        low == WrapAdd(Shl8((a_lo \div 256) * b_lo), (a_lo % 256) * b_lo)
    IN  WrapAdd(Shl16(cross), low)

\* a / b of i32 panics in every build when the quotient is not an i32
DivOverflows(a, b) == a = MinI32 /\ b = -1

\* a / b for b # 0 and not DivOverflows(a, b): the quotient truncated to zero
TruncDiv(a, b) ==
    IF b = 1 THEN a
    ELSE IF b = MinI32 THEN (IF a = MinI32 THEN 1 ELSE 0)
    ELSE IF a = MinI32
         THEN LET m == ((MaxI32 - Abs(b) + 1) \div Abs(b)) + 1
              IN  IF b > 0 THEN -m ELSE m
    ELSE LET m == Abs(a) \div Abs(b)
         IN  IF (a >= 0) = (b > 0) THEN m ELSE -m

-----------------------------------------------------------------------------
(* f32 arithmetic on exact rationals                                       *)

RECURSIVE Gcd(_, _)
Gcd(a, b) == IF b = 0 THEN a ELSE Gcd(b, a % b)

Norm(n, d) ==
    LET s == IF d < 0 THEN -1 ELSE 1
        g == Gcd(Abs(n), Abs(d))
    IN  IF n = 0 THEN <<0, 1>> ELSE <<(s * n) \div g, (s * d) \div g>>

\* `i as f32`, exact for |i| <= 2^24
I32AsF32(i) == <<i, 1>>

F32Add(a, b) == Norm(a[1] * b[2] + b[1] * a[2], a[2] * b[2])
F32Sub(a, b) == Norm(a[1] * b[2] - b[1] * a[2], a[2] * b[2])
F32Mul(a, b) == Norm(a[1] * b[1], a[2] * b[2])
\* for b # 0.0
F32Div(a, b) == Norm(a[1] * b[2], a[2] * b[1])
F32IsZero(a) == a[1] = 0


-----------------------------------------------------------------------------
(* Values, syntax and results                                              *)

\* Option<T>
NoneOpt == [some |-> FALSE]
Some(x) == [some |-> TRUE, v |-> x]

\* enum EvalResult
CInt(v) == [k |-> "CInt", i |-> v]
CReal(v) == [k |-> "CReal", f |-> v]
Bool(v) == [k |-> "Bool", b |-> v]
List(v) == [k |-> "List", l |-> v]
NoneResult == [k |-> "None"]

\* enum EnvValue
EnvCInt(v) == [ev |-> "CInt", i |-> v]
EnvCReal(v) == [ev |-> "CReal", f |-> v]
EnvBool(v) == [ev |-> "Bool", b |-> v]
EnvList(v) == [ev |-> "List", l |-> v]
EnvFunc(kind, params, stmt, retrn) ==
    [ev |-> "Func", kind |-> kind, params |-> params, stmt |-> stmt, retrn |-> retrn]
EnvNone == [ev |-> "None"]

\* enum Expression
ExpCInt(v) == [t |-> "CInt", i |-> v]
ExpCReal(v) == [t |-> "CReal", f |-> v]
ExpBool(v) == [t |-> "Bool", b |-> v]
ExpNone == [t |-> "None"]
ExpVar(name) == [t |-> "Var", name |-> name]
ExpAdd(l, r) == [t |-> "Add", l |-> l, r |-> r]
ExpSub(l, r) == [t |-> "Sub", l |-> l, r |-> r]
ExpMul(l, r) == [t |-> "Mul", l |-> l, r |-> r]
ExpDiv(l, r) == [t |-> "Div", l |-> l, r |-> r]
ExpFuncCall(name, args) == [t |-> "FuncCall", name |-> name, args |-> args]
ExpList(items) == [t |-> "List", items |-> items]
ExpRange(start, stop, step) == [t |-> "Range", start |-> start, stop |-> stop, step |-> step]

\* enum Statement
VarDeclaration(name) == [t |-> "VarDeclaration", name |-> name]
ValDeclaration(name) == [t |-> "ValDeclaration", name |-> name]
Assignment(name, exp) == [t |-> "Assignment", name |-> name, exp |-> exp]
IfThenElse(cond, sthen, selse) ==
    [t |-> "IfThenElse", cond |-> cond, sthen |-> sthen, selse |-> selse]
While(cond, stmt) == [t |-> "While", cond |-> cond, stmt |-> stmt]
For(var, exp, stmt) == [t |-> "For", var |-> var, exp |-> exp, stmt |-> stmt]
Sequence(s1, s2) == [t |-> "Sequence", s1 |-> s1, s2 |-> s2]
Func(name, kind, params, stmt, retrn) ==
    [t |-> "Func", name |-> name, kind |-> kind, params |-> params,
     stmt |-> stmt, retrn |-> retrn]

\* One entry of a function's parameter map: the name and its declared-type tag
Param(name, ty) == [name |-> name, ty |-> ty]

\* Result<_, ErrorMessage>, and the two ways a call does not return
Ok(v) == [st |-> "Ok", v |-> v]
Err(msg) == [st |-> "Err", msg |-> msg]
\* the thread panics: nothing is returned and no caller can catch it
Panic(msg) == [st |-> "Panic", msg |-> msg]
\* the model's iteration bound of a while loop was reached
Cutoff == [st |-> "Cutoff"]

\* eval's outcome: its result and the borrowed environment afterwards
Ret(res, e) == [res |-> res, env |-> e]

\* HashMap::new, insert, remove, get
EmptyEnv == [n \in {} |-> EnvNone]
Insert(e, name, val) ==
    [n \in (DOMAIN e) \cup {name} |-> IF n = name THEN val ELSE e[n]]
Remove(e, name) == [n \in (DOMAIN e) \ {name} |-> e[n]]
Bound(e, name) == name \in DOMAIN e

\* The result of an i32 operation whose exact value may leave the range
CheckedI32(overflows, wrapped, what) ==
    IF overflows /\ overflowChecks
    THEN Panic("attempt to " \o what \o " with overflow")
    ELSE Ok(CInt(wrapped))

-----------------------------------------------------------------------------
(* {:?} of an EvalResult, used in the parameter-mismatch message           *)

RECURSIVE FracDigits(_, _, _)
FracDigits(r, d, left) ==
    IF r = 0 \/ left = 0 THEN ""
    ELSE ToString((r * 10) \div d) \o FracDigits((r * 10) % d, d, left - 1)

DebugF32(a) ==
    LET n == Abs(a[1])
        whole == n \div a[2]
        frac == n % a[2]
    IN  (IF a[1] < 0 THEN "-" ELSE "") \o ToString(whole) \o "."
        \o (IF frac = 0 THEN "0" ELSE FracDigits(frac, a[2], 9))

RECURSIVE DebugFmt(_)
RECURSIVE DebugFmtItems(_, _)
DebugFmtItems(items, i) ==
    IF i > Len(items) THEN ""
    ELSE (IF i > 1 THEN ", " ELSE "") \o DebugFmt(items[i]) \o DebugFmtItems(items, i + 1)

DebugFmt(val) ==
    CASE val.k = "CInt" -> "CInt(" \o ToString(val.i) \o ")"
      [] val.k = "CReal" -> "CReal(" \o DebugF32(val.f) \o ")"
      [] val.k = "Bool" -> "Bool(" \o (IF val.b THEN "true" ELSE "false") \o ")"
      [] val.k = "List" -> "List([" \o DebugFmtItems(val.l, 1) \o "])"
      [] val.k = "None" -> "None"

-----------------------------------------------------------------------------
(* The expression evaluator                                                *)

RECURSIVE eval(_, _)
RECURSIVE execute(_, _)

RECURSIVE EvalListItems(_, _, _, _, _)
\* A loop body that pushes every value, whatever its kind
ListItemAnyKind(items, i, first_item, list_vec, list_env, value) ==
    IF value.st # "Ok" THEN value
    ELSE EvalListItems(items, i + 1, first_item, Append(list_vec, value.v), list_env)

\* A loop body that pushes every value of the kind of the first item, the
\* empty marker included
ListItemSameKind(items, i, first_item, list_vec, list_env, value) ==
    IF value.st # "Ok" THEN value
    ELSE IF first_item.k = value.v.k
         THEN EvalListItems(items, i + 1, first_item,
                            Append(list_vec, value.v), list_env)
         ELSE Err("List must be homogeneous")

\* The body of the loop of Expression::List on the value of item i: it must
\* have the kind of the first item.
ListItem(items, i, first_item, list_vec, list_env, value) ==
    IF value.st # "Ok" THEN value
    ELSE IF /\ first_item.k = value.v.k
            /\ value.v.k \in {"CInt", "CReal", "Bool", "List"}
         THEN EvalListItems(items, i + 1, first_item,
                            Append(list_vec, value.v), list_env)
         ELSE Err("List must be homogeneous")

\* The loop of Expression::List: every item is evaluated against list_env
EvalListItems(items, i, first_item, list_vec, list_env) ==
    IF i > Len(items) THEN Ok(List(list_vec))
    ELSE ListItem(items, i, first_item, list_vec, list_env,
                  eval(items[i], list_env).res)

\* Expression::List once the first item is evaluated
ListFrom(items, first_item, list_env, e) ==
    IF first_item.st # "Ok" THEN Ret(first_item, e)
    ELSE Ret(EvalListItems(items, 1, first_item.v, <<>>, list_env), e)

\* Expression::List. list_env is a clone of env: the caller's env is untouched.
EvalList(items, e) ==
    LET list_env == e
    IN  IF Len(items) < 1
        THEN Ret(Err("List initialization must have at least one element"), e)
        ELSE ListFrom(items, eval(items[1], list_env).res, list_env, e)

\* `eval(rhs, env)?` of a binary node
RightOperand(l, r) ==
    IF r.res.st # "Ok" THEN r ELSE Ret(Ok(<<l.res.v, r.res.v>>), r.env)

\* `eval(lhs, env)?` of a binary node
LeftOperand(l, rhs) ==
    IF l.res.st # "Ok" THEN l ELSE RightOperand(l, eval(rhs, l.env))

\* The two operands of a binary node, left first; the right one is not
\* evaluated when the left one fails.
EvalOperands(lhs, rhs, e) == LeftOperand(eval(lhs, e), rhs)

\* An extension that puts the elements of rhs in front
ExtendFront(lhs, rhs) == rhs \o lhs

\* `let mut result_list = lhs.clone(); result_list.extend(rhs)`
Extend(lhs, rhs) == lhs \o rhs

\* The match of Expression::Add
AddValues(l, r) ==
    CASE l.k = "CInt" /\ r.k = "CInt" ->
            CheckedI32(AddOverflows(l.i, r.i), WrapAdd(l.i, r.i), "add")
      [] l.k = "CReal" /\ r.k = "CReal" -> Ok(CReal(F32Add(l.f, r.f)))
      [] l.k = "CInt" /\ r.k = "CReal" -> Ok(CReal(F32Add(I32AsF32(l.i), r.f)))
      [] l.k = "CReal" /\ r.k = "CInt" -> Ok(CReal(F32Add(l.f, I32AsF32(r.i))))
      [] l.k = "CInt" /\ r.k = "Bool" ->
            CheckedI32(AddOverflows(l.i, BoolAsI32(r.b)),
                       WrapAdd(l.i, BoolAsI32(r.b)), "add")
      [] l.k = "CReal" /\ r.k = "Bool" ->
            Ok(CReal(F32Add(l.f, I32AsF32(BoolAsI32(r.b)))))
      [] l.k = "Bool" /\ r.k = "CInt" ->
            CheckedI32(AddOverflows(BoolAsI32(l.b), r.i),
                       WrapAdd(BoolAsI32(l.b), r.i), "add")
      [] l.k = "Bool" /\ r.k = "CReal" ->
            Ok(CReal(F32Add(I32AsF32(BoolAsI32(l.b)), r.f)))
      [] l.k = "Bool" /\ r.k = "Bool" ->
            Ok(CInt(BoolAsI32(l.b) + BoolAsI32(r.b)))
      [] l.k = "List" /\ r.k = "List" -> Ok(List(Extend(l.l, r.l)))
      [] l.k = "List" /\ r.k # "List" -> Err("Can only concatenate list to list")
      [] l.k \notin {"List", "None"} /\ r.k = "List" ->
            Err("Can only concatenate list to list")
      [] l.k = "None" /\ r.k = "List" -> Err("Can only concatenate list to list")
      [] l.k = "None" /\ r.k # "List" -> Err("Add is not supported for 'None'")
      [] l.k \notin {"List", "None"} /\ r.k = "None" ->
            Err("Add is not supported for 'None'")

\* The match of Expression::Sub
SubValues(l, r) ==
    CASE l.k = "CInt" /\ r.k = "CInt" ->
            CheckedI32(SubOverflows(l.i, r.i), WrapSub(l.i, r.i), "subtract")
      [] l.k = "CReal" /\ r.k = "CReal" -> Ok(CReal(F32Sub(l.f, r.f)))
      [] l.k = "CInt" /\ r.k = "CReal" -> Ok(CReal(F32Sub(I32AsF32(l.i), r.f)))
      [] l.k = "CReal" /\ r.k = "CInt" -> Ok(CReal(F32Sub(l.f, I32AsF32(r.i))))
      [] l.k = "CInt" /\ r.k = "Bool" ->
            CheckedI32(SubOverflows(l.i, BoolAsI32(r.b)),
                       WrapSub(l.i, BoolAsI32(r.b)), "subtract")
      [] l.k = "CReal" /\ r.k = "Bool" ->
            Ok(CReal(F32Sub(l.f, I32AsF32(BoolAsI32(r.b)))))
      [] l.k = "Bool" /\ r.k = "CInt" ->
            CheckedI32(SubOverflows(BoolAsI32(l.b), r.i),
                       WrapSub(BoolAsI32(l.b), r.i), "subtract")
      [] l.k = "Bool" /\ r.k = "CReal" ->
            Ok(CReal(F32Sub(I32AsF32(BoolAsI32(l.b)), r.f)))
      [] l.k = "Bool" /\ r.k = "Bool" ->
            Ok(CInt(BoolAsI32(l.b) - BoolAsI32(r.b)))
      [] l.k = "List" -> Err("Sub not supported for list")
      [] l.k # "List" /\ r.k = "List" -> Err("Sub not supported for list")
      [] l.k = "None" /\ r.k # "List" -> Err("Sub is not supported for 'None'")
      [] l.k \notin {"List", "None"} /\ r.k = "None" ->
            Err("Sub is not supported for 'None'")

RECURSIVE Repeat(_, _)
\* A loop over 0..=n, which runs once more
RepeatInclusive(list, n) == IF n < 0 THEN <<>> ELSE list \o Repeat(list, n - 1)

\* result_list after `for _i in 0..n { result_list.extend(list.clone()) }`
Repeat(list, n) == IF n <= 0 THEN <<>> ELSE list \o Repeat(list, n - 1)

\* The match of Expression::Mul
MulValues(l, r) ==
    CASE l.k = "CInt" /\ r.k = "CInt" ->
            CheckedI32(MulOverflows(l.i, r.i), WrapMul(l.i, r.i), "multiply")
      [] l.k = "CReal" /\ r.k = "CReal" -> Ok(CReal(F32Mul(l.f, r.f)))
      [] l.k = "CInt" /\ r.k = "CReal" -> Ok(CReal(F32Mul(I32AsF32(l.i), r.f)))
      [] l.k = "CReal" /\ r.k = "CInt" -> Ok(CReal(F32Mul(l.f, I32AsF32(r.i))))
      [] l.k = "CInt" /\ r.k = "Bool" -> Ok(CInt(l.i * BoolAsI32(r.b)))
      [] l.k = "CReal" /\ r.k = "Bool" ->
            Ok(CReal(F32Mul(l.f, I32AsF32(BoolAsI32(r.b)))))
      [] l.k = "Bool" /\ r.k = "CInt" -> Ok(CInt(BoolAsI32(l.b) * r.i))
      [] l.k = "Bool" /\ r.k = "CReal" ->
            Ok(CReal(F32Mul(I32AsF32(BoolAsI32(l.b)), r.f)))
      [] l.k = "Bool" /\ r.k = "Bool" ->
            Ok(CInt(BoolAsI32(l.b) * BoolAsI32(r.b)))
      [] l.k = "List" /\ r.k = "CInt" -> Ok(List(Repeat(l.l, r.i)))
      [] l.k = "CInt" /\ r.k = "List" -> Ok(List(Repeat(r.l, l.i)))
      [] l.k = "List" /\ r.k = "Bool" -> Ok(List(Repeat(l.l, BoolAsI32(r.b))))
      [] l.k = "Bool" /\ r.k = "List" -> Ok(List(Repeat(r.l, BoolAsI32(l.b))))
      [] l.k = "List" /\ r.k \notin {"CInt", "Bool"} ->
            Err("Cannot multiply list by non-integer value")
      [] l.k \notin {"CInt", "Bool", "List"} /\ r.k = "List" ->
            Err("Cannot multiply list by non-integer value")
      [] l.k = "None" /\ r.k # "List" -> Err("Mul is not supported for 'None'")
      [] l.k \notin {"List", "None"} /\ r.k = "None" ->
            Err("Mul is not supported for 'None'")

\* lhs / rhs on i32: a zero divisor and i32::MIN / -1 panic in every build
DivI32(a, b) ==
    IF b = 0 THEN Panic("attempt to divide by zero")
    ELSE IF DivOverflows(a, b) THEN Panic("attempt to divide with overflow")
    ELSE Ok(CInt(TruncDiv(a, b)))

\* A zero test that leaves out the `false` pattern of the boolean divisor
DivisorIsZeroNoBool(r) ==
    CASE r.k = "CInt" -> r.i = 0
      [] r.k = "CReal" -> F32IsZero(r.f)
      [] r.k = "Bool" -> FALSE

\* The inner match on rhs of every numeric arm of Expression::Div:
\* the patterns 0, 0.0 and false
DivisorIsZero(r) ==
    CASE r.k = "CInt" -> r.i = 0
      [] r.k = "CReal" -> F32IsZero(r.f)
      [] r.k = "Bool" -> r.b = FALSE

\* The match of Expression::Div
DivValues(l, r) ==
    CASE l.k = "CInt" /\ r.k = "CInt" ->
            IF DivisorIsZero(r) THEN Err("Division by zero")
            ELSE DivI32(l.i, r.i)
      [] l.k = "CReal" /\ r.k = "CReal" ->
            IF DivisorIsZero(r) THEN Err("Division by zero")
            ELSE Ok(CReal(F32Div(l.f, r.f)))
      [] l.k = "CInt" /\ r.k = "CReal" ->
            IF DivisorIsZero(r) THEN Err("Division by zero")
            ELSE Ok(CReal(F32Div(I32AsF32(l.i), r.f)))
      [] l.k = "CReal" /\ r.k = "CInt" ->
            IF DivisorIsZero(r) THEN Err("Division by zero")
            ELSE Ok(CReal(F32Div(l.f, I32AsF32(r.i))))
      [] l.k = "CInt" /\ r.k = "Bool" ->
            IF DivisorIsZero(r) THEN Err("Division by zero")
            ELSE DivI32(l.i, BoolAsI32(r.b))
      [] l.k = "CReal" /\ r.k = "Bool" ->
            IF DivisorIsZero(r) THEN Err("Division by zero")
            ELSE Ok(CReal(F32Div(l.f, I32AsF32(BoolAsI32(r.b)))))
      [] l.k = "Bool" /\ r.k = "CInt" ->
            IF DivisorIsZero(r) THEN Err("Division by zero")
            ELSE DivI32(BoolAsI32(l.b), r.i)
      [] l.k = "Bool" /\ r.k = "CReal" ->
            IF DivisorIsZero(r) THEN Err("Division by zero")
            ELSE Ok(CReal(F32Div(I32AsF32(BoolAsI32(l.b)), r.f)))
      [] l.k = "Bool" /\ r.k = "Bool" ->
            IF DivisorIsZero(r) THEN Err("Division by zero")
            ELSE DivI32(BoolAsI32(l.b), BoolAsI32(r.b))
      [] l.k = "List" -> Err("Div not supported for list")
      [] l.k # "List" /\ r.k = "List" -> Err("Div not supported for list")
      [] l.k = "None" /\ r.k # "List" -> Err("Div is not supported for 'None'")
      [] l.k \notin {"List", "None"} /\ r.k = "None" ->
            Err("Div is not supported for 'None'")

\* A lookup that reads a function as the empty marker
EvalVarFuncAsNone(name, e) ==
    IF ~Bound(e, name) THEN Err("Variable " \o name \o " not found")
    ELSE IF e[name].ev = "Func" THEN Ok([k |-> "None"])
    ELSE Ok([k |-> e[name].ev] @@ [c \in DOMAIN e[name] \ {"ev"} |-> e[name][c]])

\* Expression::Var
EvalVar(name, e) ==
    IF ~Bound(e, name) THEN Err("Variable " \o name \o " not found")
    ELSE CASE e[name].ev = "CInt" -> Ok(CInt(e[name].i))
           [] e[name].ev = "CReal" -> Ok(CReal(e[name].f))
           [] e[name].ev = "Bool" -> Ok(Bool(e[name].b))
           [] e[name].ev = "List" -> Ok(List(e[name].l))
           [] e[name].ev = "None" -> Ok(NoneResult)
           [] OTHER -> Err("Variable " \o name \o " not found")

\* The storable form of a computed value: the per-kind insert of
\* Statement::Assignment and Statement::For
Storable(value) ==
    CASE value.k = "CInt" -> EnvCInt(value.i)
      [] value.k = "CReal" -> EnvCReal(value.f)
      [] value.k = "Bool" -> EnvBool(value.b)
      [] value.k = "List" -> EnvList(value.l)
      [] value.k = "None" -> EnvNone

RECURSIVE BindParams(_, _, _, _, _)
\* A binding that stores the argument whatever the declared-type tag is
BindParamAnyKind(new_params, new_args, i, func_env, a) ==
    IF a.res.st # "Ok" THEN a
    ELSE BindParams(new_params, new_args, i + 1, a.env,
                    Insert(func_env, new_params[i].name, Storable(a.res.v)))

\* The body of the binding loop on the value a of argument i: the match
\* (*param.1, value)
BindParam(new_params, new_args, i, func_env, a) ==
    LET param == new_params[i]
    IN  IF a.res.st # "Ok" THEN a
        ELSE IF /\ param.ty.k = a.res.v.k
                /\ a.res.v.k \in {"CInt", "CReal", "Bool", "List"}
             THEN BindParams(new_params, new_args, i + 1, a.env,
                             Insert(func_env, param.name, Storable(a.res.v)))
             ELSE Ret(Err("Mismatched types for " \o DebugFmt(param.ty)), a.env)

\* The loop over new_params.iter().zip(new_args.iter()): each argument is
\* evaluated against the caller's env and inserted in func_env under the
\* parameter the map's iteration pairs it with.
BindParams(new_params, new_args, i, e, func_env) ==
    IF i > Len(new_params) THEN Ret(Ok(func_env), e)
    ELSE BindParam(new_params, new_args, i, func_env, eval(new_args[i], e))

\* A return that hands on the value whatever the declared return type is
CheckReturnKindAny(name, kind_type, result) == Ok(result)

\* The match (kind_type, result) on the value of the return expression
CheckReturnKind(name, kind_type, result) ==
    IF kind_type.k = result.k
    THEN Ok(result)
    ELSE Err(name \o " returned a value different from specified type")

\* A call that hands the environment of its body back to the caller
CallerEnvAfterCallShared(caller_env, callee_env) == callee_env

\* The environment borrowed by a call once the call is over.  func_env is a
\* clone of env and the body runs on a clone of func_env, so nothing the call
\* binds reaches the caller.
CallerEnvAfterCall(caller_env, callee_env) == caller_env

\* The call once the return expression is evaluated: the match
\* (kind_type, result)
CallReturn(name, f, caller_env, r) ==
    IF r.res.st # "Ok"
    THEN Ret(r.res, CallerEnvAfterCall(caller_env, r.env))
    ELSE Ret(CheckReturnKind(name, f.kind, r.res.v),
             CallerEnvAfterCall(caller_env, r.env))

\* The call once the body is executed: the match on execute(body_stmt, ..)
CallBody(name, f, caller_env, x) ==
    IF x.st = "Ok" THEN CallReturn(name, f, caller_env, eval(f.retrn, x.v))
    ELSE IF x.st = "Err"
    THEN Ret(Err(name \o " generated an error: " \o x.msg), caller_env)
    ELSE Ret(x, caller_env)

\* The call once the parameters are bound: `if let Some(body_stmt) = stmt`
CallBound(name, f, b) ==
    IF b.res.st # "Ok" THEN b
    ELSE IF f.stmt.some
    THEN CallBody(name, f, b.env, execute(f.stmt.v, b.res.v))
    ELSE CallReturn(name, f, b.env, eval(f.retrn, b.res.v))

\* A message with the two counts in each other's place
RequiresArgumentsSwapped(name, params_len, args_len) ==
    Err(name \o " requires " \o ToString(args_len)
        \o " arguments, got " \o ToString(params_len))

\* format!("{} requires {} arguments, got {}", name, new_params.len(),
\* new_args.len())
RequiresArguments(name, params_len, args_len) ==
    Err(name \o " requires " \o ToString(params_len)
        \o " arguments, got " \o ToString(args_len))

\* A call whose environment starts empty: the callee sees its parameters alone
FuncEnvEmpty(e) == EmptyEnv

\* `let mut func_env = env.clone()`: the environment of the call starts as a
\* copy of the caller's
FuncEnv(e) == e

\* A call that reads the name as a variable
EvalFuncCallAsVar(name, args, e) == Ret(EvalVar(name, e), e)

\* Expression::FuncCall
EvalFuncCall(name, args, e) ==
    IF ~Bound(e, name) THEN Ret(Err(name \o " is not defined"), e)
    ELSE IF e[name].ev # "Func" THEN Ret(Err(name \o " is not defined"), e)
    ELSE
    LET f == e[name]
        func_env == FuncEnv(e)
        new_params == IF f.params.some THEN f.params.v ELSE <<>>
        new_args == IF args.some THEN args.v ELSE <<>>
    IN  IF Len(new_args) # Len(new_params)
        THEN Ret(RequiresArguments(name, Len(new_params), Len(new_args)), e)
        ELSE CallBound(name, f, BindParams(new_params, new_args, 1, e, func_env))

\* A match that converts integers alone
ConvertsToI32IntOnly(value) == value.k = "CInt"

\* One arm of the match (srt_value, end_value, incr_value): an integer or a
\* boolean converts to i32, nothing else does.
ConvertsToI32(value) == value.k \in {"CInt", "Bool"}
AsI32(value) == IF value.k = "Bool" THEN BoolAsI32(value.b) ELSE value.i

RECURSIVE AscendingRangeInclusive(_, _, _)
\* A range that takes end_int itself when a step lands on it (srt..=end)
AscendingRangeInclusive(srt_int, end_int, step) ==
    IF srt_int > end_int THEN <<>>
    ELSE <<CInt(srt_int)>> \o
         (IF srt_int > MaxI32 - step THEN <<>>
          ELSE AscendingRangeInclusive(srt_int + step, end_int, step))

RECURSIVE AscendingRange(_, _, _)
\* (srt_int..end_int).step_by(step) for step > 0
AscendingRange(srt_int, end_int, step) ==
    IF srt_int >= end_int THEN <<>>
    ELSE <<CInt(srt_int)>> \o
         (IF srt_int > MaxI32 - step THEN <<>>
          ELSE AscendingRange(srt_int + step, end_int, step))

RECURSIVE DescendingRange(_, _, _)
\* (low..=high).rev().step_by(step as usize); a negative step is i32::MIN,
\* which `as usize` makes larger than any distance between two i32
DescendingRange(high, low, step) ==
    IF high < low THEN <<>>
    ELSE <<CInt(high)>> \o
         (IF step < 0 THEN <<>>
          ELSE IF high < MinI32 + step THEN <<>>
          ELSE DescendingRange(high - step, low, step))

\* The match on incr_int.signum()
RangeList(srt_int, end_int, incr_int) ==
    CASE Signum(incr_int) = 0 -> Err("Increment cannot be zero")
      [] Signum(incr_int) = -1 ->
            IF incr_int = MinI32 /\ overflowChecks
            THEN Panic("attempt to negate with overflow")
            ELSE LET abs == IF incr_int = MinI32 THEN MinI32 ELSE -incr_int
                 IN  IF AddOverflows(end_int, abs) /\ overflowChecks
                     THEN Panic("attempt to add with overflow")
                     ELSE Ok(List(DescendingRange(srt_int, WrapAdd(end_int, abs), abs)))
      [] Signum(incr_int) = 1 -> Ok(List(AscendingRange(srt_int, end_int, incr_int)))

\* The match (srt_value, end_value, incr_value)
RangeOf(srt_value, end_value, incr_value, e) ==
    IF end_value.st # "Ok" THEN Ret(end_value, e)
    ELSE IF srt_value.st # "Ok" THEN Ret(srt_value, e)
    ELSE IF incr_value.st # "Ok" THEN Ret(incr_value, e)
    ELSE IF /\ ConvertsToI32(srt_value.v)
            /\ ConvertsToI32(end_value.v)
            /\ ConvertsToI32(incr_value.v)
         THEN Ret(RangeList(AsI32(srt_value.v), AsI32(end_value.v),
                            AsI32(incr_value.v)), e)
         ELSE Ret(Err("Parameters cannot be converted to integer"), e)

\* Expression::Range. new_env is a clone of env.
EvalRange(exp1, exp2, exp3, e) ==
    LET new_env == e
    IN  RangeOf(IF exp1.some THEN eval(exp1.v, new_env).res
                ELSE eval(ExpCInt(0), new_env).res,
                eval(exp2, new_env).res,
                IF exp3.some THEN eval(exp3.v, new_env).res
                ELSE eval(ExpCInt(1), new_env).res,
                e)


\* The arithmetic arms once both operands are evaluated
AddOperands(o) ==
    IF o.res.st # "Ok" THEN o ELSE Ret(AddValues(o.res.v[1], o.res.v[2]), o.env)
SubOperands(o) ==
    IF o.res.st # "Ok" THEN o ELSE Ret(SubValues(o.res.v[1], o.res.v[2]), o.env)
MulOperands(o) ==
    IF o.res.st # "Ok" THEN o ELSE Ret(MulValues(o.res.v[1], o.res.v[2]), o.env)
DivOperands(o) ==
    IF o.res.st # "Ok" THEN o ELSE Ret(DivValues(o.res.v[1], o.res.v[2]), o.env)

\* pub fn eval
eval(exp, e) ==
    CASE exp.t = "CInt" -> Ret(Ok(CInt(exp.i)), e)
      [] exp.t = "CReal" -> Ret(Ok(CReal(exp.f)), e)
      [] exp.t = "Bool" -> Ret(Ok(Bool(exp.b)), e)
      [] exp.t = "None" -> Ret(Ok(NoneResult), e)
      [] exp.t = "List" -> EvalList(exp.items, e)
      [] exp.t = "Add" -> AddOperands(EvalOperands(exp.l, exp.r, e))
      [] exp.t = "Sub" -> SubOperands(EvalOperands(exp.l, exp.r, e))
      [] exp.t = "Mul" -> MulOperands(EvalOperands(exp.l, exp.r, e))
      [] exp.t = "Div" -> DivOperands(EvalOperands(exp.l, exp.r, e))
      [] exp.t = "Var" -> Ret(EvalVar(exp.name, e), e)
      [] exp.t = "FuncCall" -> EvalFuncCall(exp.name, exp.args, e)
      [] exp.t = "Range" -> EvalRange(exp.start, exp.stop, exp.step, e)

-----------------------------------------------------------------------------
(* The statement executor                                                  *)

\* The iterations a while loop inside a statement may run in the model
MaxWhileIter == 4

\* A truthiness that takes every list, the empty one too, for true
TruthyAnyList(value) ==
    CASE value.k = "CInt" -> value.i # 0
      [] value.k = "CReal" -> ~F32IsZero(value.f)
      [] value.k = "Bool" -> value.b
      [] value.k = "List" -> TRUE
      [] value.k = "None" -> FALSE

\* The truthiness match of IfThenElse and While on an evaluated condition
Truthy(value) ==
    CASE value.k = "CInt" -> value.i # 0
      [] value.k = "CReal" -> ~F32IsZero(value.f)
      [] value.k = "Bool" -> value.b
      [] value.k = "List" -> value.l # <<>>
      [] value.k = "None" -> FALSE

\* The truthiness match on the evaluated condition: its truth value, or the
\* wrapped error
ConditionOf(c) ==
    IF c.res.st = "Ok" THEN Ret(Ok(Truthy(c.res.v)), c.env)
    ELSE IF c.res.st = "Err"
    THEN Ret(Err("Condition resulted in an error: " \o c.res.msg), c.env)
    ELSE c

\* The condition of IfThenElse and While evaluated on e
Condition(cond, e) == ConditionOf(eval(cond, e))

\* An assignment that returns an environment holding the new binding alone
AssignValueAlone(name, value) ==
    IF value.res.st # "Ok" THEN value.res
    ELSE Ok(Insert(EmptyEnv, name, Storable(value.res.v)))

\* The match on the value of Statement::Assignment
AssignValue(name, value) ==
    IF value.res.st # "Ok" THEN value.res
    ELSE Ok(Insert(value.env, name, Storable(value.res.v)))

\* Statement::Assignment
ExecAssignment(name, exp, e) == AssignValue(name, eval(exp, e))

\* `if value { execute(stmt_then, env) } else { execute(stmt_else, env) }`
IfThenElseOn(value, stmt_then, stmt_else) ==
    IF value.res.st # "Ok" THEN value.res
    ELSE IF value.res.v THEN execute(stmt_then, value.env)
    ELSE execute(stmt_else, value.env)

\* Statement::IfThenElse
ExecIfThenElse(cond, stmt_then, stmt_else, e) ==
    IfThenElseOn(Condition(cond, e), stmt_then, stmt_else)

\* A pass that leaves the loop after one run of the body, as an `if` would
WhileLeave(b) == [done |-> TRUE, res |-> b]
WhileOnce(value, stmt) ==
    IF value.res.st # "Ok" THEN [done |-> TRUE, res |-> value.res]
    ELSE IF value.res.v THEN WhileLeave(execute(stmt, value.env))
    ELSE [done |-> TRUE, res |-> Ok(value.env)]
WhilePassOnce(cond, stmt, new_env) ==
    WhileOnce(Condition(cond, new_env), stmt)

\* `new_env = execute(stmt, new_env)?`
WhileBody(b) == [done |-> b.st # "Ok", res |-> b]

\* `if value { .. } else { break }` on the evaluated condition
WhileOn(value, stmt) ==
    IF value.res.st # "Ok" THEN [done |-> TRUE, res |-> value.res]
    ELSE IF value.res.v THEN WhileBody(execute(stmt, value.env))
    ELSE [done |-> TRUE, res |-> Ok(value.env)]

\* One pass of the `loop` of Statement::While on new_env: done with the
\* result of the statement, or not done with the environment of the next pass
WhilePass(cond, stmt, new_env) == WhileOn(Condition(cond, new_env), stmt)

RECURSIVE ExecWhile(_, _, _, _)
\* The loop after the pass p
WhileLoop(cond, stmt, p, left) ==
    IF p.done THEN p.res
    ELSE IF left = 0 THEN Cutoff
    ELSE ExecWhile(cond, stmt, p.res.v, left - 1)

\* Statement::While, cut off when more than `left` further passes are needed
ExecWhile(cond, stmt, new_env, left) ==
    WhileLoop(cond, stmt, WhilePass(cond, stmt, new_env), left)

\* A declaration that returns an environment holding the function alone
ExecFuncAlone(name, kind, params, stmt, retrn, e) ==
    Ok(Insert(EmptyEnv, name, EnvFunc(kind, params, stmt, retrn)))

\* Statement::Func
ExecFunc(name, kind, params, stmt, retrn, e) ==
    Ok(Insert(e, name, EnvFunc(kind, params, stmt, retrn)))

RECURSIVE ForItems(_, _, _, _, _)
\* `new_env = execute(stmt, new_env)?` of the pass for item i
ForItem(var, vec, i, stmt, b) ==
    IF b.st # "Ok" THEN b ELSE ForItems(var, vec, i + 1, stmt, b.v)

\* A loop that takes the items of vec last to first
ForItemsBackward(var, vec, i, stmt, new_env) ==
    IF i > Len(vec) THEN Ok(new_env)
    ELSE ForItem(var, vec, i, stmt,
                 execute(stmt, Insert(new_env, var, Storable(vec[Len(vec) + 1 - i]))))

\* `for item in vec`: binds the loop variable to the item, then runs the body
ForItems(var, vec, i, stmt, new_env) ==
    IF i > Len(vec) THEN Ok(new_env)
    ELSE ForItem(var, vec, i, stmt,
                 execute(stmt, Insert(new_env, var, Storable(vec[i]))))

\* An exit that leaves the loop variable bound
ForExitKeep(new_env, var) == new_env

\* An exit that returns an empty environment
ForExitClear(new_env, var) == EmptyEnv

\* new_env.remove(&var) at the exit of a for loop
ForExit(new_env, var) == Remove(new_env, var)

\* The For statement after its last pass
ForDone(var, r) == IF r.st # "Ok" THEN r ELSE Ok(ForExit(r.v, var))

\* The match on exp_value
ForOver(var, exp_value, stmt) ==
    IF exp_value.res.st # "Ok" THEN exp_value.res
    ELSE IF exp_value.res.v.k # "List"
    THEN Err("Expression must be an iterable object")
    ELSE ForDone(var, ForItems(var, exp_value.res.v.l, 1, stmt, exp_value.env))

\* Statement::For
ExecFor(var, exp, stmt, e) == ForOver(var, eval(exp, e), stmt)

\* A sequence that stops after its first statement
SequenceStop(r, s2) == r

\* `.and_then(|new_env| execute(s2, new_env))`
SequenceThen(r, s2) == IF r.st # "Ok" THEN r ELSE execute(s2, r.v)

\* Statement::Sequence
ExecSequence(s1, s2, e) == SequenceThen(execute(s1, e), s2)

execute(stmt, e) ==
    CASE stmt.t = "Assignment" -> ExecAssignment(stmt.name, stmt.exp, e)
      [] stmt.t = "IfThenElse" -> ExecIfThenElse(stmt.cond, stmt.sthen, stmt.selse, e)
      [] stmt.t = "While" -> ExecWhile(stmt.cond, stmt.stmt, e, MaxWhileIter)
      [] stmt.t = "Func" ->
            ExecFunc(stmt.name, stmt.kind, stmt.params, stmt.stmt, stmt.retrn, e)
      [] stmt.t = "For" -> ExecFor(stmt.var, stmt.exp, stmt.stmt, e)
      [] stmt.t = "Sequence" -> ExecSequence(stmt.s1, stmt.s2, e)
      [] OTHER -> Err("not implemented yet")

-----------------------------------------------------------------------------
(* The callers of eval and execute                                         *)
(*                                                                         *)
(* The core has two entry points and no driver of its own; as in the       *)
(* tests of interpreter.rs, a caller holds an environment, hands it to     *)
(* execute and keeps the environment it gets back, or lends it to eval.    *)
(* execute consumes the environment: when it fails the caller is left      *)
(* with the error alone and goes on from a new, empty environment.         *)

\* Bounds of the values a caller lets its environment hold
MaxVal == 3
MaxLen == 4

NoOp == [op |-> "none"]

RECURSIVE ResultInBounds(_)
ResultInBounds(value) ==
    CASE value.k = "CInt" -> value.i \in -MaxVal..MaxVal
      [] value.k = "List" ->
            /\ Len(value.l) <= MaxLen
            /\ \A j \in 1..Len(value.l) : ResultInBounds(value.l[j])
      [] OTHER -> TRUE

EnvInBounds(e) ==
    \A n \in DOMAIN e :
        CASE e[n].ev = "CInt" -> e[n].i \in -MaxVal..MaxVal
          [] e[n].ev = "List" -> ResultInBounds(List(e[n].l))
          [] OTHER -> TRUE

\* The caller's state when eval has returned r
EvalReturns(exp, r) ==
    /\ r.res.st # "Cutoff"
    /\ last' = [op |-> "eval", exp |-> exp, pre |-> env, res |-> r.res]
    /\ env' = r.env
    /\ UNCHANGED <<inp, overflowChecks>>

\* A caller lends env to eval
Eval(exp) == EvalReturns(exp, eval(exp, env))

\* The caller's state when execute has returned r
ExecuteReturns(stmt, r) ==
    /\ r.st # "Cutoff"
    /\ r.st = "Ok" => EnvInBounds(r.v)
    /\ last' = [op |-> "execute", stmt |-> stmt, pre |-> env, res |-> r]
    /\ env' = IF r.st = "Ok" THEN r.v ELSE EmptyEnv
    /\ UNCHANGED <<inp, overflowChecks>>

\* A caller gives env to execute and keeps what comes back
Execute(stmt) == ExecuteReturns(stmt, execute(stmt, env))

-----------------------------------------------------------------------------
(* Binary arithmetic on drawn operands                                     *)

\* The small integers drawn as operands, next to the ends of the i32 range
MaxOperand == 2

IntOperands ==
    {ExpCInt(i) : i \in -MaxOperand..MaxOperand}
        \cup {ExpCInt(MinI32), ExpCInt(MinI32 + 1), ExpCInt(MaxI32 - 1), ExpCInt(MaxI32)}
RealOperands == {ExpCReal(<<0, 1>>), ExpCReal(<<3, 2>>), ExpCReal(<<-2, 1>>)}
BoolOperands == {ExpBool(FALSE), ExpBool(TRUE)}
\* Range(None, 0, None) is the empty list, which no list literal can give
ListOperands ==
    {ExpList(<<ExpCInt(0), ExpCInt(1)>>), ExpList(<<ExpBool(TRUE)>>),
     ExpList(<<ExpList(<<ExpCInt(1)>>)>>), ExpRange(NoneOpt, ExpCInt(0), NoneOpt)}
Operands ==
    IntOperands \cup RealOperands \cup BoolOperands \cup ListOperands \cup {ExpNone}

BinaryOps == {"Add", "Sub", "Mul", "Div"}

\* The operand pairs on which the model's f32 and list arithmetic is that of
\* the code: no integer beyond 2^24 meets a real, no list is repeated more
\* than MaxOperand times
Modelled(l, r) ==
    LET big(x) == x.t = "CInt" /\ (x.i < -MaxOperand \/ x.i > MaxOperand)
        many(x) == x.t = "CInt" /\ x.i > MaxOperand
    IN  /\ ~(big(l) /\ r.t = "CReal")
        /\ ~(big(r) /\ l.t = "CReal")
        /\ ~(many(l) /\ r \in ListOperands)
        /\ ~(many(r) /\ l \in ListOperands)

BinaryExp(i) == [t |-> i.op, l |-> i.l, r |-> i.r]

ArithInit ==
    /\ env = EmptyEnv
    /\ inp \in {i \in [op : BinaryOps, l : Operands, r : Operands] : Modelled(i.l, i.r)}
    /\ last = NoOp
    /\ overflowChecks \in BOOLEAN

EvalBinary == last = NoOp /\ Eval(BinaryExp(inp))

ArithNext == EvalBinary

SpecArith == ArithInit /\ [][ArithNext]_vars

\* C9: for all 32-bit integers a and b, Add(CInt(a), CInt(b)) evaluates to
\* Ok(CInt(s)) with s the sum a + b modulo 2^32 in two's complement, also
\* when a + b leaves the 32-bit range.
AddIntegersWraps ==
    (last.op = "eval" /\ inp.op = "Add" /\ inp.l.t = "CInt" /\ inp.r.t = "CInt")
        => last.res = Ok(CInt(WrapAdd(inp.l.i, inp.r.i)))

\* The operand is a literal of a scalar kind / a scalar literal of value zero
ScalarOperand(x) == x.t \in {"CInt", "CReal", "Bool"}
ZeroOperand(x) ==
    \/ x.t = "CInt" /\ x.i = 0
    \/ x.t = "CReal" /\ x.f[1] = 0
    \/ x.t = "Bool" /\ ~x.b

\* C10: Div(l, r) on an integer, real or boolean l fails with "Division by
\* zero" when r is integer 0, real 0.0 or boolean false, in each of the nine
\* kind combinations, and never fails with that message when r is a nonzero
\* integer, a nonzero real or boolean true.
DivisionByZero ==
    (last.op = "eval" /\ inp.op = "Div" /\ ScalarOperand(inp.l) /\ ScalarOperand(inp.r))
        => (last.res = Err("Division by zero") <=> ZeroOperand(inp.r))

\* C10 witness: a real divided by boolean false failed with the message
DivisionByZeroWitness ==
    /\ last.op = "eval" /\ inp.op = "Div"
    /\ inp.l.t = "CReal" /\ inp.r = ExpBool(FALSE)
    /\ last.res = Err("Division by zero")

-----------------------------------------------------------------------------
(* Range on drawn start, stop and step                                     *)

\* The integers drawn as start, stop and step
MaxRange == 5

RangeArgs ==
    {ExpCInt(i) : i \in -MaxRange..MaxRange}
        \cup {ExpBool(FALSE), ExpBool(TRUE), ExpCReal(<<1, 1>>), ExpNone,
              ExpList(<<ExpCInt(1)>>)}
OptRangeArgs == {NoneOpt} \cup {Some(a) : a \in RangeArgs}

\* Ranges at the ends of the i32 range
ExtremeRanges ==
    {[start |-> Some(ExpCInt(MaxI32 - 3)), stop |-> ExpCInt(MaxI32),
      step |-> Some(ExpCInt(2))],
     [start |-> Some(ExpCInt(MinI32)), stop |-> ExpCInt(MinI32 + 2),
      step |-> NoneOpt],
     [start |-> Some(ExpCInt(MaxI32)), stop |-> ExpCInt(MaxI32 - 2),
      step |-> Some(ExpCInt(-1))],
     [start |-> Some(ExpCInt(MinI32 + 2)), stop |-> ExpCInt(MaxI32),
      step |-> Some(ExpCInt(-1))]}

RangeExp(i) == ExpRange(i.start, i.stop, i.step)

RangeInit ==
    /\ env = EmptyEnv
    /\ inp \in [start : OptRangeArgs, stop : RangeArgs, step : OptRangeArgs]
                   \cup ExtremeRanges
    /\ last = NoOp
    /\ overflowChecks \in BOOLEAN

EvalRangeExp == last = NoOp /\ Eval(RangeExp(inp))

RangeNext == EvalRangeExp

SpecRange == RangeInit /\ [][RangeNext]_vars

\* The drawn range has integer start, stop and step, an omitted start being 0
\* and an omitted step 1
IntegerRange ==
    /\ inp.stop.t = "CInt"
    /\ inp.start.some => inp.start.v.t = "CInt"
    /\ inp.step.some => inp.step.v.t = "CInt"
StartOf(i) == IF i.start.some THEN i.start.v.i ELSE 0
StepOf(i) == IF i.step.some THEN i.step.v.i ELSE 1

\* C5: for step > 0, Range(start, stop, step) is exactly the list start,
\* start+step, start+2*step, ... of the values below stop, in increasing
\* order, empty when start >= stop; an omitted start is 0, an omitted step 1.
AscendingRangeExact ==
    (last.op = "eval" /\ IntegerRange /\ StepOf(inp) > 0) =>
        /\ last.res.st = "Ok"
        /\ last.res.v.k = "List"
        /\ LET L == last.res.v.l
           IN  /\ \A j \in 1..Len(L) :
                     /\ L[j].k = "CInt"
                     /\ L[j].i < inp.stop.i
                     /\ L[j].i = StartOf(inp) + (j - 1) * StepOf(inp)
               /\ IF Len(L) = 0 THEN StartOf(inp) >= inp.stop.i
                  ELSE L[Len(L)].i >= inp.stop.i - StepOf(inp)
        /\ (inp = [start |-> NoneOpt, stop |-> ExpCInt(5), step |-> NoneOpt]
               => last.res.v.l = <<CInt(0), CInt(1), CInt(2), CInt(3), CInt(4)>>)

\* C5 witness: Range(0, 5, 2) was evaluated to [0, 2, 4]
AscendingRangeWitness ==
    /\ last.op = "eval"
    /\ inp = [start |-> Some(ExpCInt(0)), stop |-> ExpCInt(5), step |-> Some(ExpCInt(2))]
    /\ last.res = Ok(List(<<CInt(0), CInt(2), CInt(4)>>))

\* C6: for step < 0, Range(start, stop, step) is the list start, start-|step|,
\* start-2|step|, ... of the values >= stop + |step|, in decreasing order,
\* empty when start < stop + |step|.
DescendingRangeExact ==
    (last.op = "eval" /\ IntegerRange /\ StepOf(inp) < 0) =>
        /\ last.res.st = "Ok"
        /\ last.res.v.k = "List"
        /\ LET L == last.res.v.l
               mag == -StepOf(inp)
           IN  /\ \A j \in 1..Len(L) :
                     /\ L[j].k = "CInt"
                     /\ L[j].i - mag >= inp.stop.i
                     /\ L[j].i = StartOf(inp) - (j - 1) * mag
               /\ IF Len(L) = 0 THEN StartOf(inp) - mag < inp.stop.i
                  ELSE L[Len(L)].i - mag - mag < inp.stop.i

RECURSIVE HomogeneousList(_)
\* All elements of the list l have one kind, and so on in the lists it holds
HomogeneousList(l) ==
    \A j \in 1..Len(l) :
        /\ l[j].k = l[1].k
        /\ l[j].k = "List" => HomogeneousList(l[j].l)

\* C4: every list value that eval returns or that execute stores in an
\* environment is homogeneous: all its elements have the same kind, after any
\* sequence of list construction, concatenation, replication, range generation
\* and assignment.
ListsHomogeneous ==
    /\ (last.op = "eval" /\ last.res.st = "Ok" /\ last.res.v.k = "List")
           => HomogeneousList(last.res.v.l)
    /\ \A n \in DOMAIN env : env[n].ev = "List" => HomogeneousList(env[n].l)

-----------------------------------------------------------------------------
(* The summation loop, one pass of Statement::While per step               *)

\* The values of n whose run is followed from its first statement
MaxN == 10
\* The value of x at which the run of a great n is taken up
ResumeAt == 260

\* The values of n around the greatest sum that fits i32: 65535*65536/2 is
\* 2147450880, and 65536*65537/2 is 2147516416 > i32::MAX
GreatInputs == {65535, 65536}

\* x = n; y = 0
SumSetup(n) ==
    Sequence(Assignment("x", ExpCInt(n)), Assignment("y", ExpCInt(0)))
\* while x: (y = y + x; x = x - 1)
SumCond == ExpVar("x")
SumBody ==
    Sequence(Assignment("y", ExpAdd(ExpVar("y"), ExpVar("x"))),
             Assignment("x", ExpSub(ExpVar("x"), ExpCInt(1))))

\* (k+1) + (k+2) + ... + n, computed without leaving the range
SumFrom(k, n) ==
    LET a == n - k
        b == n + k + 1
    IN  IF a % 2 = 0 THEN (a \div 2) * b ELSE a * (b \div 2)

\* new_env after the n - k passes that added n, n-1, ..., k+1 to y: all
\* these sums fit i32 for the n and k drawn
SumEnvAfter(n, k) ==
    Insert(Insert(EmptyEnv, "x", EnvCInt(k)), "y", EnvCInt(SumFrom(k, n)))

\* The run for a small n starts at its first statement; the run for a great
\* n is taken up in the loop when x has come down to ResumeAt
WhileInit ==
    /\ overflowChecks \in BOOLEAN
    /\ \/ /\ inp \in 0..MaxN
          /\ env = EmptyEnv
          /\ last = NoOp
       \/ /\ inp \in GreatInputs
          /\ env = SumEnvAfter(inp, ResumeAt)
          /\ last = [op |-> "pass", res |-> Ok(env)]

\* The state when the two assignments before the loop have returned r
WhileEntered(r) ==
    /\ r.st = "Ok"
    /\ last' = [op |-> "enter", res |-> r]
    /\ env' = r.v

\* execute of the two assignments before the loop
WhileEnter ==
    /\ last = NoOp
    /\ WhileEntered(execute(SumSetup(inp), env))
    /\ UNCHANGED <<inp, overflowChecks>>

\* The state after the pass p: the loop goes on, or the statement returns
WhilePassed(p) ==
    /\ last' = [op |-> IF p.done THEN "while" ELSE "pass", res |-> p.res]
    /\ env' = IF p.res.st = "Ok" THEN p.res.v ELSE env

\* One pass of the loop of Statement::While; env is its new_env
WhileStep ==
    /\ last.op \in {"enter", "pass"}
    /\ WhilePassed(WhilePass(SumCond, SumBody, env))
    /\ UNCHANGED <<inp, overflowChecks>>

WhileNext == WhileEnter \/ WhileStep

SpecWhile == WhileInit /\ [][WhileNext]_vars

\* n*(n+1)/2, computed without leaving the range for n <= 65535
Triangular(n) ==
    IF n % 2 = 0 THEN (n \div 2) * (n + 1) ELSE n * ((n + 1) \div 2)
\* v = n*(n+1)/2, decided without computing the product
IsTriangular(v, n) ==
    IF n = 0 THEN v = 0
    ELSE IF n % 2 = 0 THEN v % (n + 1) = 0 /\ v \div (n + 1) = n \div 2
    ELSE v % n = 0 /\ v \div n = (n + 1) \div 2

\* The loop has returned an environment
SumReturned == last.op = "while" /\ last.res.st = "Ok"

\* C7 as stated: the summation program terminates for every n >= 0, and the
\* returned environment binds x to 0 and y to n*(n+1)/2.
SummationAll ==
    last.op = "while" =>
        /\ last.res.st = "Ok"
        /\ last.res.v["x"] = EnvCInt(0)
        /\ last.res.v["y"].ev = "CInt"
        /\ IsTriangular(last.res.v["y"].i, inp)

\* The loop is in a pass or about to start its first one
SumRunning == last.op \in {"enter", "pass"}

\* C7: for every n with 0 <= n <= 65535 (the sum n*(n+1)/2 fits 32 bits) the
\* summation program terminates and returns an environment binding x to 0 and
\* y to n*(n+1)/2 (y = 55 for n = 10).  Every pass tests the condition on the
\* environment of the previous pass: a pass that finds x = 0 returns, any
\* other pass takes x down by one, never below 0, so the loop returns within
\* n + 1 passes, and after each pass y + x*(x+1)/2 is n*(n+1)/2.
SummationFits ==
    /\ [](inp <= 65535 =>
            /\ (SumRunning \/ last.op = "while") =>
                  /\ env["x"].ev = "CInt" /\ env["x"].i \in 0..inp
                  /\ env["y"] = EnvCInt(Triangular(inp) - Triangular(env["x"].i))
            /\ last.op = "while" =>
                  /\ last.res = Ok(env)
                  /\ env["x"] = EnvCInt(0)
                  /\ env["y"] = EnvCInt(Triangular(inp))
            /\ (inp = 10 /\ last.op = "while") => env["y"] = EnvCInt(55))
    /\ [][(inp <= 65535 /\ SumRunning) =>
             IF env["x"].i = 0
             THEN last'.op = "while" /\ env' = env
             ELSE /\ last'.op = "pass"
                  /\ env'["x"] = EnvCInt(env["x"].i - 1)
                  /\ env'["x"].i >= 0]_vars

\* C7 witness: the loop has returned for n = 65535 with y = 2147450880
SummationWitness ==
    /\ inp = 65535
    /\ SumReturned
    /\ env["x"] = EnvCInt(0) /\ env["y"] = EnvCInt(2147450880)

-----------------------------------------------------------------------------
(* A caller that declares functions, assigns and evaluates calls           *)

\* def f() -> CInt: t = 1; x = x + 1; def g() -> CInt: return 0; return x
\* The body assigns a new name, overwrites a name of the caller and
\* declares a function.
DeclF ==
    Func("f", CInt(0), NoneOpt,
         Some(Sequence(Assignment("t", ExpCInt(1)),
              Sequence(Assignment("x", ExpAdd(ExpVar("x"), ExpCInt(1))),
                       Func("g", CInt(0), NoneOpt, NoneOpt, ExpCInt(0))))),
         ExpVar("x"))

\* def sub(a: CInt, b: CInt) -> CInt: return a - b.  params is a HashMap: the
\* sequence is the order in which this map happens to be iterated, which the
\* clones kept by the environment and made by every call preserve.
DeclSub(order) ==
    Func("sub", CInt(0), Some(order), NoneOpt, ExpSub(ExpVar("a"), ExpVar("b")))
ParamsAB == <<Param("a", CInt(0)), Param("b", CInt(0))>>
ParamsBA == <<Param("b", CInt(0)), Param("a", CInt(0))>>

Call(name, args) == ExpFuncCall(name, IF args = <<>> THEN NoneOpt ELSE Some(args))

\* The statements the caller executes
Stmts ==
    <<Assignment("x", ExpCInt(1)),
      Assignment("x", ExpAdd(ExpVar("x"), ExpCInt(1))),
      DeclF,
      DeclSub(ParamsAB),
      DeclSub(ParamsBA),
      Assignment("t", Call("f", <<>>)),
      Assignment("v", ExpCReal(<<3, 2>>)),
      Assignment("v", ExpBool(TRUE)),
      Assignment("v", ExpNone),
      Assignment("v", ExpList(<<ExpVar("x")>>))>>

\* The expressions the caller evaluates
Exprs ==
    <<Call("f", <<>>),
      Call("g", <<>>),
      Call("sub", <<ExpCInt(5), ExpCInt(7)>>),
      Call("sub", <<ExpVar("x"), Call("f", <<>>)>>),
      Call("sub", <<ExpCInt(1)>>),
      ExpVar("t"),
      ExpVar("v"),
      ExpVar("f"),
      ExpAdd(ExpVar("x"), Call("f", <<>>)),
      ExpList(<<ExpVar("x"), Call("f", <<>>)>>),
      ExpRange(NoneOpt, Call("f", <<>>), NoneOpt),
      ExpDiv(Call("f", <<>>), ExpCInt(0))>>

Init ==
    /\ env = EmptyEnv
    /\ inp = 0
    /\ last = NoOp
    /\ overflowChecks \in BOOLEAN

ExecuteStmt == \E i \in 1..Len(Stmts) : Execute(Stmts[i])
EvalExpr == \E i \in 1..Len(Exprs) : Eval(Exprs[i])

Next == ExecuteStmt \/ EvalExpr

Spec == Init /\ [][Next]_vars

\* C1: eval never changes the environment it is given: after eval(e, env)
\* returns, Ok or Err, the caller's env is identical, binding for binding, to
\* env before the call, also for a call whose body assigns, overwrites or
\* declares names and for Range and List.
EvalKeepsEnv == last.op = "eval" => env = last.pre

\* C1 witness: f, whose body assigns t, overwrites x and declares g, was
\* called with x bound and returned x + 1
EvalKeepsEnvWitness ==
    /\ last.op = "eval"
    /\ last.exp = Call("f", <<>>)
    /\ Bound(last.pre, "x") /\ ~Bound(last.pre, "t") /\ ~Bound(last.pre, "g")
    /\ last.res = Ok(CInt(last.pre["x"].i + 1))

\* The environment e with the parameter map of every function iterated in
\* the opposite order: as a value (HashMap ==) it is the environment e
RECURSIVE Reverse(_)
Reverse(s) == IF s = <<>> THEN <<>> ELSE Append(Reverse(Tail(s)), Head(s))
OtherIteration(e) ==
    [n \in DOMAIN e |->
        IF e[n].ev = "Func" /\ e[n].params.some
        THEN EnvFunc(e[n].kind, Some(Reverse(e[n].params.v)), e[n].stmt, e[n].retrn)
        ELSE e[n]]

\* C2: eval is deterministic: the same expression evaluated against the same
\* environment yields identical results, also for a call of a function with
\* two or more parameters: the result does not depend on the order in which
\* the parameter map is paired with the positional argument list.
EvalDeterministic ==
    last.op = "eval" => eval(last.exp, OtherIteration(last.pre)).res = last.res

-----------------------------------------------------------------------------
(* One For statement on a drawn iterable and body                          *)

\* y = 0; log = []; xs = [1, 3, 5], and i = 7 when the loop variable is to be
\* bound before the loop.  Range(None, 0, None) is the empty list, which no
\* list literal can give.
ForPrelude(bound) ==
    LET base ==
            Sequence(Assignment("y", ExpCInt(0)),
            Sequence(Assignment("log", ExpRange(NoneOpt, ExpCInt(0), NoneOpt)),
                     Assignment("xs", ExpList(<<ExpCInt(1), ExpCInt(3), ExpCInt(5)>>))))
    IN  IF bound THEN Sequence(base, Assignment("i", ExpCInt(7))) ELSE base

\* The iterable expressions
ForIterables ==
    <<ExpList(<<ExpCInt(1), ExpCInt(3), ExpCInt(5)>>),
      ExpVar("xs"),
      ExpRange(NoneOpt, ExpCInt(3), NoneOpt),
      ExpRange(Some(ExpCInt(3)), ExpCInt(0), Some(ExpCInt(-1))),
      ExpRange(NoneOpt, ExpCInt(0), NoneOpt),
      ExpAdd(ExpVar("xs"), ExpVar("xs")),
      ExpList(<<ExpBool(TRUE), ExpBool(FALSE)>>),
      ExpList(<<ExpList(<<ExpCInt(1)>>), ExpList(<<ExpCInt(3)>>)>>),
      ExpCInt(1),
      ExpVar("zz")>>

\* y = y + i
AddToY == Assignment("y", ExpAdd(ExpVar("y"), ExpVar("i")))
\* log = log + [i]
LogItem == Assignment("log", ExpAdd(ExpVar("log"), ExpList(<<ExpVar("i")>>)))

\* The bodies: the last five log the item and then assign the variable of
\* the iterable, assign the loop variable, or run a loop on the same variable
ForBodies ==
    <<AddToY,
      Assignment("y", ExpAdd(ExpVar("y"), ExpVar("zz"))),
      LogItem,
      Sequence(LogItem, AddToY),
      Sequence(LogItem, Assignment("xs", ExpAdd(ExpVar("xs"), ExpVar("xs")))),
      Sequence(LogItem, Assignment("i", ExpCInt(0))),
      Sequence(LogItem, For("i", ExpList(<<ExpCInt(2)>>), AddToY))>>
\* The bodies that begin with LogItem
LoggingBodies == 3..Len(ForBodies)

ForStmt(i) == For("i", ForIterables[i.iter], ForBodies[i.body])

ForInit ==
    /\ env = EmptyEnv
    /\ inp \in [iter : 1..Len(ForIterables), body : 1..Len(ForBodies),
                bound : BOOLEAN]
    /\ last = NoOp
    /\ overflowChecks \in BOOLEAN

\* The caller's state when the statements before the loop have returned r
ForSetUpReturns(r) ==
    /\ r.st = "Ok"
    /\ last' = [op |-> "setup", res |-> r]
    /\ env' = r.v

ForSetUp ==
    /\ last = NoOp
    /\ ForSetUpReturns(execute(ForPrelude(inp.bound), env))
    /\ UNCHANGED <<inp, overflowChecks>>

\* The caller's state when the For statement has returned r
ForReturns(r) ==
    /\ last' = [op |-> "for", pre |-> env, res |-> r]
    /\ env' = IF r.st = "Ok" THEN r.v ELSE EmptyEnv

ExecuteFor ==
    /\ last.op = "setup"
    /\ ForReturns(execute(ForStmt(inp), env))
    /\ UNCHANGED <<inp, overflowChecks>>

ForNext == ForSetUp \/ ExecuteFor

SpecFor == ForInit /\ [][ForNext]_vars

\* The For statement has completed successfully
ForCompleted == last.op = "for" /\ last.res.st = "Ok"

\* C3: after a For statement completes successfully the loop variable's name
\* is not bound in the returned environment, for every iterable list, an
\* empty one included, and every body.
LoopVarUnbound == ForCompleted => ~Bound(last.res.v, "i") /\ ~Bound(env, "i")

\* C3 witness: a loop over the empty list has completed, and its variable
\* was bound before the loop
LoopVarUnboundWitness ==
    /\ ForCompleted
    /\ ForIterables[inp.iter] = ExpRange(NoneOpt, ExpCInt(0), NoneOpt)
    /\ Bound(last.pre, "i")

RECURSIVE SumItems(_)
\* The sum of the integers and booleans of a list, a boolean counting 0 or 1
SumItems(l) ==
    IF l = <<>> THEN 0
    ELSE (IF Head(l).k = "CInt" THEN Head(l).i ELSE BoolAsI32(Head(l).b))
             + SumItems(Tail(l))

\* The list the iterable evaluates to against the environment entering the loop
EnteringItems == eval(ForIterables[inp.iter], last.pre).res.v.l

\* C8: a For statement evaluates its iterable once against the entering
\* environment, then executes the body once per element, in list order, with
\* the loop variable bound to that element and with the environment of the
\* previous iteration; assignments of the body to variables of the iterable
\* change neither the number nor the values of the iterations: a body that
\* logs its item leaves the log extended by exactly the entering list, a
\* body that adds its item to y leaves y increased by the sum of that list
\* (y = 0; for i in [1,3,5]: y = y + i leaves y = 9).
ForOnceInOrder ==
    ForCompleted =>
        /\ inp.body \in LoggingBodies =>
               env["log"] = EnvList(last.pre["log"].l \o EnteringItems)
        /\ ForBodies[inp.body] \in {AddToY, Sequence(LogItem, AddToY)} =>
               env["y"] = EnvCInt(last.pre["y"].i + SumItems(EnteringItems))
        /\ (inp.iter = 1 /\ ForBodies[inp.body] = AddToY) => env["y"] = EnvCInt(9)

\* C8 witness: the loop over xs whose body logs the item and doubles xs has
\* completed with the log [1, 3, 5]
ForOnceInOrderWitness ==
    /\ ForCompleted
    /\ ForIterables[inp.iter] = ExpVar("xs")
    /\ ForBodies[inp.body] =
           Sequence(LogItem, Assignment("xs", ExpAdd(ExpVar("xs"), ExpVar("xs"))))
    /\ env["log"] = EnvList(<<CInt(1), CInt(3), CInt(5)>>)
    /\ Len(env["xs"].l) = 24

-----------------------------------------------------------------------------
(* List construction on drawn element expressions                          *)

\* The longest element list drawn
MaxItems == 3

\* The element expressions: two integers, a real, a boolean, two lists of
\* different element kinds, the empty marker, an unbound variable (its
\* evaluation fails) and a sum that leaves the i32 range
ListElements ==
    <<ExpCInt(1), ExpCInt(2), ExpCReal(<<3, 2>>), ExpBool(TRUE),
      ExpList(<<ExpCInt(1)>>), ExpList(<<ExpBool(TRUE)>>), ExpNone,
      ExpVar("u"), ExpAdd(ExpCInt(MaxI32), ExpCInt(1))>>

\* The element list drawn: ListElements at the drawn indices
ItemsOf(ixs) == [j \in 1..Len(ixs) |-> ListElements[ixs[j]]]

ListInit ==
    /\ env = EmptyEnv
    /\ inp \in UNION {[1..n -> 1..Len(ListElements)] : n \in 0..MaxItems}
    /\ last = NoOp
    /\ overflowChecks \in BOOLEAN

EvalListExp == last = NoOp /\ Eval(ExpList(ItemsOf(inp)))

ListNext == EvalListExp

SpecList == ListInit /\ [][ListNext]_vars

\* What element j of the drawn list evaluates to on its own
ItemResult(j) == eval(ListElements[inp[j]], last.pre).res
\* Element j evaluates, to a value of kind k
ItemHasKind(j, k) == ItemResult(j).st = "Ok" /\ ItemResult(j).v.k = k
\* Element j evaluates to a kind that is not the kind of the first element
ItemOfOtherKind(j) ==
    /\ ItemResult(1).st = "Ok" /\ ItemResult(j).st = "Ok"
    /\ ItemResult(j).v.k # ItemResult(1).v.k
ListKinds == {"CInt", "CReal", "Bool", "List"}

-----------------------------------------------------------------------------
(* Lists under Add and Mul, on the operands of SpecArith                   *)

\* The values of the two operands drawn (every operand evaluates)
LeftValue == eval(inp.l, last.pre).res.v
RightValue == eval(inp.r, last.pre).res.v

\* The result is the list of the elements of l1 in order, then those of l2
IsConcatenation(res, l1, l2) ==
    /\ res.st = "Ok" /\ res.v.k = "List"
    /\ Len(res.v.l) = Len(l1) + Len(l2)
    /\ \A j \in 1..Len(l1) : res.v.l[j] = l1[j]
    /\ \A j \in 1..Len(l2) : res.v.l[Len(l1) + j] = l2[j]

\* C12: for all list values L1 and L2, Add(L1, L2) evaluates to the list of
\* L1's elements in order followed by L2's elements in order, of length
\* len(L1) + len(L2); Add with exactly one list operand fails with "Can only
\* concatenate list to list".
ListConcatenation ==
    (last.op = "eval" /\ inp.op = "Add") =>
        /\ (LeftValue.k = "List" /\ RightValue.k = "List") =>
               IsConcatenation(last.res, LeftValue.l, RightValue.l)
        /\ ((LeftValue.k = "List") # (RightValue.k = "List")) =>
               last.res = Err("Can only concatenate list to list")

\* C12 witness: [true] + [0, 1] was evaluated to [true, 0, 1]
ListConcatenationWitness ==
    /\ last.op = "eval" /\ inp.op = "Add"
    /\ inp.l = ExpList(<<ExpBool(TRUE)>>)
    /\ inp.r = ExpList(<<ExpCInt(0), ExpCInt(1)>>)
    /\ last.res = Ok(List(<<Bool(TRUE), CInt(0), CInt(1)>>))

\* The result is the list l taken n times over, nothing when n <= 0
IsRepetition(res, l, n) ==
    /\ res.st = "Ok" /\ res.v.k = "List"
    /\ Len(res.v.l) = (IF n > 0 THEN n * Len(l) ELSE 0)
    /\ \A j \in 1..Len(res.v.l) : res.v.l[j] = l[((j - 1) % Len(l)) + 1]

\* The multiplier a value stands for: an integer, or a boolean as 1 or 0
IsMultiplier(value) == value.k \in {"CInt", "Bool"}
MultiplierOf(value) ==
    IF value.k = "CInt" THEN value.i ELSE IF value.b THEN 1 ELSE 0

\* C13: for every list L and integer n, Mul(L, n) and Mul(n, L) both evaluate
\* to L concatenated with itself n times (length n * len(L)) when n > 0 and
\* to the empty list when n <= 0; a boolean multiplier behaves as 1 (true) or
\* 0 (false).
ListRepetition ==
    (last.op = "eval" /\ inp.op = "Mul") =>
        /\ (LeftValue.k = "List" /\ IsMultiplier(RightValue)) =>
               IsRepetition(last.res, LeftValue.l, MultiplierOf(RightValue))
        /\ (IsMultiplier(LeftValue) /\ RightValue.k = "List") =>
               IsRepetition(last.res, RightValue.l, MultiplierOf(LeftValue))

\* C13 witness: 2 * [0, 1] was evaluated to [0, 1, 0, 1]
ListRepetitionWitness ==
    /\ last.op = "eval" /\ inp.op = "Mul"
    /\ inp.l = ExpCInt(2)
    /\ inp.r = ExpList(<<ExpCInt(0), ExpCInt(1)>>)
    /\ last.res = Ok(List(<<CInt(0), CInt(1), CInt(0), CInt(1)>>))

-----------------------------------------------------------------------------
(* One call of f on a drawn declaration and drawn arguments                *)

\* The parameter maps drawn, each in one iteration order: absent, empty, one
\* parameter of each tag, two parameters in either order, and an
\* empty-marker parameter before an integer one.  A declared-type tag is a
\* value of the kind: CInt(0), CReal(0.0), Bool(false), List([]), None.
CallParams ==
    <<NoneOpt,
      Some(<<>>),
      Some(<<Param("a", CInt(0))>>),
      Some(<<Param("a", CReal(<<0, 1>>))>>),
      Some(<<Param("a", Bool(FALSE))>>),
      Some(<<Param("a", List(<<>>))>>),
      Some(<<Param("a", NoneResult)>>),
      Some(<<Param("a", CInt(0)), Param("b", Bool(FALSE))>>),
      Some(<<Param("b", Bool(FALSE)), Param("a", CInt(0))>>),
      Some(<<Param("a", NoneResult), Param("b", CInt(0))>>)>>

\* The declared return types
CallKinds == <<CInt(0), CReal(<<0, 1>>), Bool(FALSE), List(<<>>), NoneResult>>

\* The bodies: none, t = 1, and t = u, which fails (u is never bound)
CallBodies ==
    <<NoneOpt, Some(Assignment("t", ExpCInt(1))), Some(Assignment("t", ExpVar("u")))>>

\* The return expressions: a literal, the first parameter, the name the body
\* assigns, and the empty marker
CallReturns == <<ExpCInt(1), ExpVar("a"), ExpVar("t"), ExpNone>>

\* The argument expressions: x is an integer of the caller, u is unbound
ArgExprs ==
    <<ExpVar("x"), ExpBool(TRUE), ExpNone, ExpVar("u"),
      ExpCReal(<<3, 2>>), ExpList(<<ExpCInt(1)>>)>>

\* The number of argument expressions, from the first, drawn in pairs
MaxPaired == 4

\* The argument lists drawn: absent, empty, every single argument, and every
\* pair of the first MaxPaired
CallArgs ==
    <<NoneOpt, Some(<<>>)>>
        \o [j \in 1..Len(ArgExprs) |-> Some(<<ArgExprs[j]>>)]
        \o [j \in 1..(MaxPaired * MaxPaired) |->
               Some(<<ArgExprs[((j - 1) \div MaxPaired) + 1],
                      ArgExprs[((j - 1) % MaxPaired) + 1]>>)]

\* def f(params) -> kind: body; return retrn
DeclCalled(i) ==
    Func("f", CallKinds[i.kind], CallParams[i.params], CallBodies[i.body],
         CallReturns[i.retrn])

\* x = 1, then the binding of f
CallPrelude(i) ==
    LET x1 == Assignment("x", ExpCInt(1))
    IN  CASE i.setup = "Func" -> Sequence(x1, DeclCalled(i))
          [] i.setup = "CInt" -> Sequence(x1, Assignment("f", ExpCInt(2)))
          [] i.setup = "CReal" -> Sequence(x1, Assignment("f", ExpCReal(<<3, 2>>)))
          [] i.setup = "Bool" -> Sequence(x1, Assignment("f", ExpBool(TRUE)))
          [] i.setup = "List" -> Sequence(x1, Assignment("f", ExpList(<<ExpCInt(1)>>)))
          [] i.setup = "None" -> Sequence(x1, Assignment("f", ExpNone))
          [] i.setup = "absent" -> x1

CallInit ==
    /\ env = EmptyEnv
    /\ inp \in {i \in [setup : {"Func", "CInt", "CReal", "Bool", "List", "None", "absent"},
                       params : 1..Len(CallParams),
                       kind : 1..Len(CallKinds),
                       body : 1..Len(CallBodies),
                       retrn : 1..Len(CallReturns), args : 1..Len(CallArgs)] :
                    i.setup # "Func" =>
                        i.params = 1 /\ i.kind = 1 /\ i.body = 1 /\ i.retrn = 1}
    /\ last = NoOp
    /\ overflowChecks \in BOOLEAN

\* The caller executes the statements before the call: what the caller
\* binds f to is a function, a value of one of the other kinds, or nothing
CallSetUp ==
    /\ last = NoOp
    /\ execute(CallPrelude(inp), env).st = "Ok"
    /\ last' = [op |-> "setup"]
    /\ env' = execute(CallPrelude(inp), env).v
    /\ UNCHANGED <<inp, overflowChecks>>

EvalCall == last.op = "setup" /\ Eval(ExpFuncCall("f", CallArgs[inp.args]))

CallNext == CallSetUp \/ EvalCall

SpecCall == CallInit /\ [][CallNext]_vars

\* The call of a declared function has returned
CalledFunc == last.op = "eval" /\ inp.setup = "Func"
\* The declared parameters and the arguments given, none when absent
DeclaredParams ==
    IF CallParams[inp.params].some THEN CallParams[inp.params].v ELSE <<>>
GivenArgs == IF CallArgs[inp.args].some THEN CallArgs[inp.args].v ELSE <<>>
\* The call has as many arguments as the function declares parameters
RightCount == Len(GivenArgs) = Len(DeclaredParams)

\* C14: a call to a declared function with M arguments when the function
\* declares N parameters, M # N, fails with exactly "<name> requires <N>
\* arguments, got <M>" (an absent parameter map or an absent argument list
\* counts as 0), and with M = N the call never fails with that message.
ArityChecked ==
    CalledFunc =>
        (last.res = Err("f requires " \o ToString(Len(DeclaredParams))
                        \o " arguments, got " \o ToString(Len(GivenArgs)))
            <=> ~RightCount)

\* C14 witness: a function declared without a parameter map was called with
\* one argument and the call failed with "f requires 0 arguments, got 1"
ArityCheckedWitness ==
    /\ CalledFunc
    /\ CallParams[inp.params] = NoneOpt
    /\ Len(GivenArgs) = 1
    /\ last.res = Err("f requires 0 arguments, got 1")

\* What argument j evaluates to against the caller's environment
ArgResult(j) == eval(GivenArgs[j], last.pre).res
\* Argument j evaluates to a kind that is not the kind of the tag of the
\* parameter it is paired with
ArgOfOtherKind(j) ==
    ArgResult(j).st = "Ok" /\ ArgResult(j).v.k # DeclaredParams[j].ty.k
\* Argument j evaluates and the binding takes it: its kind is the kind of the
\* tag, and the tag is not the empty marker
ArgTaken(j) ==
    /\ ArgResult(j).st = "Ok"
    /\ ArgResult(j).v.k = DeclaredParams[j].ty.k
    /\ DeclaredParams[j].ty.k # "None"
\* The declared-type tag as the message shows it
TagText(ty) ==
    CASE ty.k = "CInt" -> "CInt(0)"
      [] ty.k = "CReal" -> "CReal(0.0)"
      [] ty.k = "Bool" -> "Bool(false)"
      [] ty.k = "List" -> "List([])"
      [] ty.k = "None" -> "None"
Mismatched(j) == Err("Mismatched types for " \o TagText(DeclaredParams[j].ty))

\* C15 as stated: in a call with the right number of arguments, when some
\* argument evaluates to a kind other than the kind of the declared-type tag
\* of the parameter it is bound to, the call fails with "Mismatched types for
\* <declared-type tag>" (no coercion), and neither the body nor the return
\* expression is evaluated.
ArgumentKindsChecked ==
    (CalledFunc /\ RightCount /\ \E j \in 1..Len(GivenArgs) : ArgOfOtherKind(j)) =>
        \E j \in 1..Len(GivenArgs) : ArgOfOtherKind(j) /\ last.res = Mismatched(j)

\* C15 amended: the arguments are evaluated and bound one by one in argument
\* order and the first failure ends the call: the call fails with
\* "Mismatched types for <tag>" of the first parameter whose argument
\* evaluates to another kind than its tag's (or whose tag is the empty
\* marker) when every argument before it evaluates and is taken, and with the
\* failure of an argument's evaluation when that comes first; the call then
\* fails whatever the body and the return expression are.
ArgumentKindsCheckedInOrder ==
    (CalledFunc /\ RightCount) =>
        \A j \in 1..Len(GivenArgs) :
            (\A h \in 1..(j - 1) : ArgTaken(h)) =>
                /\ ArgOfOtherKind(j) => last.res = Mismatched(j)
                /\ (ArgResult(j).st = "Ok" /\ DeclaredParams[j].ty.k = "None") =>
                       last.res = Mismatched(j)
                /\ ArgResult(j).st # "Ok" => last.res = ArgResult(j)

\* C15 witness: an integer argument was given for a real parameter of a
\* function whose body fails, and the call failed with the mismatch
ArgumentKindsWitness ==
    /\ CalledFunc
    /\ DeclaredParams = <<Param("a", CReal(<<0, 1>>))>>
    /\ GivenArgs = <<ExpVar("x")>>
    /\ CallBodies[inp.body] = Some(Assignment("t", ExpVar("u")))
    /\ last.res = Err("Mismatched types for CReal(0.0)")

\* The environment of the callee once the parameters are bound, the result
\* of its body, and the result of its return expression
CalleeEnv == BindParams(DeclaredParams, GivenArgs, 1, last.pre, last.pre).res
BodyResult ==
    IF CallBodies[inp.body].some
    THEN execute(CallBodies[inp.body].v, CalleeEnv.v)
    ELSE Ok(CalleeEnv.v)
ReturnResult == eval(CallReturns[inp.retrn], BodyResult.v).res
\* The call gets as far as the value of its return expression
ReturnReached ==
    /\ RightCount /\ CalleeEnv.st = "Ok" /\ BodyResult.st = "Ok"
    /\ ReturnResult.st = "Ok"

\* C16: every successful function call returns a value whose kind equals the
\* kind of the function's declared return-type tag; if the return expression
\* evaluates to a value of another kind the call fails with "<name> returned
\* a value different from specified type", with or without a body statement.
ReturnKindChecked ==
    CalledFunc =>
        /\ last.res.st = "Ok" => last.res.v.k = CallKinds[inp.kind].k
        /\ ReturnReached =>
               IF ReturnResult.v.k = CallKinds[inp.kind].k
               THEN last.res = Ok(ReturnResult.v)
               ELSE last.res = Err("f returned a value different from specified type")

\* C16 witness: a function with a body, declared to return a boolean, returned
\* the integer its body assigned, and the call failed with the message
ReturnKindWitness ==
    /\ CalledFunc
    /\ CallKinds[inp.kind] = Bool(FALSE)
    /\ CallBodies[inp.body] = Some(Assignment("t", ExpCInt(1)))
    /\ CallReturns[inp.retrn] = ExpVar("t")
    /\ last.res = Err("f returned a value different from specified type")

\* C17: eval(FuncCall(name, args), env) fails with "<name> is not defined"
\* whenever name is absent from env or bound to a non-function value
\* (integer, real, boolean, list or empty marker), regardless of the
\* arguments.
UndefinedCall ==
    (last.op = "eval" /\ inp.setup # "Func") =>
        /\ inp.setup = "absent" <=> ~Bound(last.pre, "f")
        /\ inp.setup # "absent" => last.pre["f"].ev = inp.setup
        /\ last.res = Err("f is not defined")

\* C17 witness: f was bound to a list and called with an argument that does
\* not evaluate; the call failed with "f is not defined"
UndefinedCallWitness ==
    /\ last.op = "eval" /\ inp.setup = "List"
    /\ last.pre["f"] = EnvList(<<CInt(1)>>)
    /\ GivenArgs = <<ExpVar("u")>>
    /\ last.res = Err("f is not defined")

\* The message that names f and keeps the inner message as its suffix
Wrapped(inner) == Err("f generated an error: " \o inner)

\* C18: every failure that occurs while evaluating a call to a defined
\* function f (in evaluating an argument, executing the body, or evaluating
\* the return expression) is reported as "<f> generated an error: <inner>",
\* which names f and keeps the original inner message as its suffix.
CallFailuresWrapped ==
    (CalledFunc /\ RightCount) =>
        /\ \A j \in 1..Len(GivenArgs) :
               (ArgResult(j).st = "Err" /\ \A h \in 1..(j - 1) : ArgTaken(h)) =>
                   last.res = Wrapped(ArgResult(j).msg)
        /\ (CalleeEnv.st = "Ok" /\ BodyResult.st = "Err") =>
               last.res = Wrapped(BodyResult.msg)
        /\ (CalleeEnv.st = "Ok" /\ BodyResult.st = "Ok" /\ ReturnResult.st = "Err") =>
               last.res = Wrapped(ReturnResult.msg)

-----------------------------------------------------------------------------
(* Assignment, on the statements of Spec                                   *)

\* The last operation executed an Assignment
Assigned == last.op = "execute" /\ last.stmt.t = "Assignment"
\* What its right-hand side evaluates to against the entering environment
AssignedValue == eval(last.stmt.exp, last.pre).res
\* The binding holds the storable form of the value: the same kind, the same
\* payload
IsStoredForm(binding, value) ==
    /\ binding.ev = value.k
    /\ CASE value.k = "CInt" -> binding.i = value.i
         [] value.k = "CReal" -> binding.f = value.f
         [] value.k = "Bool" -> binding.b = value.b
         [] value.k = "List" -> binding.l = value.l
         [] value.k = "None" -> TRUE

\* C19: a successful Assignment(x, e) on env returns an environment in which
\* x is bound to the storable form of eval(e, env) computed against the
\* pre-assignment environment (x = x + 1 reads the old x, a later assignment
\* overwrites an earlier one) and every other name has exactly the binding
\* it had in env; if eval(e, env) fails, the assignment fails with the same
\* error.
AssignmentFrame ==
    Assigned =>
        IF AssignedValue.st = "Ok"
        THEN /\ last.res.st = "Ok"
             /\ DOMAIN last.res.v = DOMAIN last.pre \cup {last.stmt.name}
             /\ IsStoredForm(last.res.v[last.stmt.name], AssignedValue.v)
             /\ \A n \in DOMAIN last.pre \ {last.stmt.name} :
                    last.res.v[n] = last.pre[n]
             /\ env = last.res.v
        ELSE last.res = AssignedValue

\* C19 witness: x = x + 1 was executed on an environment that binds x to 1,
\* f to a function and v to a list, and returned x = 2
AssignmentFrameWitness ==
    /\ Assigned
    /\ last.stmt = Assignment("x", ExpAdd(ExpVar("x"), ExpCInt(1)))
    /\ Bound(last.pre, "x") /\ Bound(last.pre, "f") /\ Bound(last.pre, "v")
    /\ last.pre["x"] = EnvCInt(1) /\ last.pre["v"].ev = "List"
    /\ env["x"] = EnvCInt(2)

-----------------------------------------------------------------------------
(* One IfThenElse on a drawn condition and drawn branches                  *)

\* The conditions: integers, reals, booleans, a list holding 0, the empty
\* list, the empty marker, variables (x = 1, z = 0, u unbound), a division
\* by zero and a sum that leaves the i32 range
IfConds ==
    <<ExpCInt(0), ExpCInt(2), ExpCInt(-1),
      ExpCReal(<<0, 1>>), ExpCReal(<<3, 2>>),
      ExpBool(TRUE), ExpBool(FALSE),
      ExpList(<<ExpCInt(0)>>), ExpRange(NoneOpt, ExpCInt(0), NoneOpt),
      ExpNone,
      ExpVar("x"), ExpVar("z"), ExpVar("u"),
      ExpDiv(ExpCInt(1), ExpCInt(0)),
      ExpAdd(ExpCInt(MaxI32), ExpCInt(1))>>

\* The branches: two assignments of a new name, an assignment that reads a
\* name of the entering environment, one that fails, and a nested IfThenElse
IfBranches ==
    <<Assignment("r", ExpCInt(1)),
      Assignment("r", ExpCInt(2)),
      Assignment("x", ExpAdd(ExpVar("x"), ExpCInt(1))),
      Assignment("r", ExpVar("u")),
      IfThenElse(ExpVar("x"), Assignment("r", ExpCInt(3)), Assignment("r", ExpCInt(4)))>>

IfInit ==
    /\ env = EmptyEnv
    /\ inp \in [cond : 1..Len(IfConds), sthen : 1..Len(IfBranches),
                selse : 1..Len(IfBranches)]
    /\ last = NoOp
    /\ overflowChecks \in BOOLEAN

\* x = 1; z = 0
IfSetUp ==
    /\ last = NoOp
    /\ last' = [op |-> "setup"]
    /\ env' = execute(Sequence(Assignment("x", ExpCInt(1)),
                               Assignment("z", ExpCInt(0))), env).v
    /\ UNCHANGED <<inp, overflowChecks>>

ExecuteIf ==
    /\ last.op = "setup"
    /\ Execute(IfThenElse(IfConds[inp.cond], IfBranches[inp.sthen],
                          IfBranches[inp.selse]))

IfNext == IfSetUp \/ ExecuteIf

SpecIf == IfInit /\ [][IfNext]_vars

\* What the condition evaluates to against the entering environment
CondResult == eval(IfConds[inp.cond], last.pre).res
\* The conditions that select the then-branch: a nonzero integer, a nonzero
\* real, boolean true, a nonempty list
SelectsThen(value) ==
    \/ value.k = "CInt" /\ value.i # 0
    \/ value.k = "CReal" /\ value.f[1] # 0
    \/ value.k = "Bool" /\ value.b = TRUE
    \/ value.k = "List" /\ Len(value.l) > 0
\* The conditions that select the else-branch: zero, false, an empty list,
\* the empty marker
SelectsElse(value) ==
    \/ value.k = "CInt" /\ value.i = 0
    \/ value.k = "CReal" /\ value.f[1] = 0
    \/ value.k = "Bool" /\ value.b = FALSE
    \/ value.k = "List" /\ Len(value.l) = 0
    \/ value.k = "None"

\* C20: IfThenElse executes exactly one branch against the unchanged
\* entering environment: the then-branch when the condition is a nonzero
\* integer, nonzero real, boolean true or nonempty list, the else-branch when
\* it is zero, false, an empty list or the empty marker, and the result is
\* exactly that branch's result.  If the condition fails to evaluate, neither
\* branch runs and the error is "Condition resulted in an error: <inner>".
IfOneBranch ==
    last.op = "execute" =>
        /\ CondResult.st = "Ok" => (SelectsThen(CondResult.v) # SelectsElse(CondResult.v))
        /\ (CondResult.st = "Ok" /\ SelectsThen(CondResult.v)) =>
               last.res = execute(IfBranches[inp.sthen], last.pre)
        /\ (CondResult.st = "Ok" /\ SelectsElse(CondResult.v)) =>
               last.res = execute(IfBranches[inp.selse], last.pre)
        /\ CondResult.st = "Err" =>
               last.res = Err("Condition resulted in an error: " \o CondResult.msg)

\* C20 witness: on the empty list, with a then-branch that fails, the nested
\* IfThenElse of the else-branch ran and bound r to 3
IfOneBranchWitness ==
    /\ last.op = "execute"
    /\ IfConds[inp.cond] = ExpRange(NoneOpt, ExpCInt(0), NoneOpt)
    /\ IfBranches[inp.sthen] = Assignment("r", ExpVar("u"))
    /\ IfBranches[inp.selse].t = "IfThenElse"
    /\ last.res.st = "Ok"
    /\ env = Insert(last.pre, "r", EnvCInt(3))

-----------------------------------------------------------------------------
(* Sequences of two drawn statements, executed one after the other         *)

\* The statements a sequence is made of: assignments (x = x + 1 fails when x
\* is unbound), a For, a declaration, an IfThenElse on x and a While that
\* counts x down (both fail when x is unbound), and a sequence that binds i,
\* the loop variable of the For
SeqStmts ==
    <<Assignment("x", ExpCInt(1)),
      Assignment("x", ExpAdd(ExpVar("x"), ExpCInt(1))),
      For("i", ExpList(<<ExpCInt(1), ExpCInt(2)>>), Assignment("y", ExpVar("i"))),
      Func("g", CInt(0), NoneOpt, NoneOpt, ExpCInt(0)),
      IfThenElse(ExpVar("x"), Assignment("y", ExpCInt(1)), Assignment("y", ExpCInt(2))),
      While(ExpVar("x"), Assignment("x", ExpSub(ExpVar("x"), ExpCInt(1)))),
      Sequence(Assignment("i", ExpCInt(3)), Assignment("y", ExpVar("i")))>>

SeqInit ==
    /\ env = EmptyEnv
    /\ inp = 0
    /\ last = NoOp
    /\ overflowChecks \in BOOLEAN

\* The caller executes Sequence(s1, s2) on the environment it holds
ExecuteSeq ==
    \E a \in 1..Len(SeqStmts), b \in 1..Len(SeqStmts) :
        Execute(Sequence(SeqStmts[a], SeqStmts[b]))

SeqNext == ExecuteSeq

SpecSeq == SeqInit /\ [][SeqNext]_vars

\* The result of the first statement on the entering environment
FirstResult == execute(last.stmt.s1, last.pre)

\* C21: Sequence(s1, s2) executes s1 on the entering environment and then s2
\* on the environment s1 returned, and its result is s2's result; if s1
\* fails, s2 is never executed and the sequence fails with s1's error
\* unchanged.
SequenceInOrder ==
    last.op = "execute" =>
        IF FirstResult.st = "Ok"
        THEN last.res = execute(last.stmt.s2, FirstResult.v)
        ELSE last.res = FirstResult

\* C21 witness: x = 1; x = x + 1 was executed on an environment without x and
\* returned x = 2
SequenceInOrderWitness ==
    /\ last.op = "execute"
    /\ last.stmt = Sequence(Assignment("x", ExpCInt(1)), SeqStmts[2])
    /\ ~Bound(last.pre, "x")
    /\ last.res.st = "Ok"
    /\ env["x"] = EnvCInt(2)

\* C22: when a statement inside a Sequence fails, no partial environment of
\* the failing step is committed, and the environment effects of the prior,
\* successful statements of that sequence persist: they remain available to
\* the caller after the failure.
PriorEffectsPersist ==
    (last.op = "execute" /\ last.res.st = "Err" /\ FirstResult.st = "Ok") =>
        \/ env = FirstResult.v
        \/ "v" \in DOMAIN last.res /\ last.res.v = FirstResult.v

RECURSIVE LoopVars(_)
\* The loop variables of the For statements a statement contains
LoopVars(stmt) ==
    CASE stmt.t = "For" -> {stmt.var} \cup LoopVars(stmt.stmt)
      [] stmt.t = "While" -> LoopVars(stmt.stmt)
      [] stmt.t = "IfThenElse" -> LoopVars(stmt.sthen) \cup LoopVars(stmt.selse)
      [] stmt.t = "Sequence" -> LoopVars(stmt.s1) \cup LoopVars(stmt.s2)
      [] OTHER -> {}

\* C23: bindings are removed from an environment only at the exit of a For
\* loop, and only the loop's iteration variable: if execute(s, env) succeeds
\* for a statement s that contains no For, every name bound in env is still
\* bound in the result; for a successful statement with a For, the only names
\* bound before and unbound after are loop variables of its For statements.
OnlyLoopVarsRemoved ==
    (last.op = "execute" /\ last.res.st = "Ok") =>
        /\ (DOMAIN last.pre) \ (DOMAIN last.res.v) \subseteq LoopVars(last.stmt)
        /\ env = last.res.v

\* C23 witness: a sequence with a For on i was executed on an environment
\* that binds i, x and g; i is unbound afterwards, x and g are still bound
OnlyLoopVarsRemovedWitness ==
    /\ last.op = "execute" /\ last.res.st = "Ok"
    /\ "i" \in LoopVars(last.stmt)
    /\ Bound(last.pre, "i") /\ Bound(last.pre, "x") /\ Bound(last.pre, "g")
    /\ ~Bound(env, "i") /\ Bound(env, "x") /\ Bound(env, "g")

-----------------------------------------------------------------------------
(* Variable lookup, on the environments of Spec                            *)

\* The binding the looked-up name had when eval was entered
LookedUp == last.pre[last.exp.name]

\* v has the kind and the payload of the stored value s
SameKindAndPayload(v, s) ==
    /\ v.k = s.ev
    /\ CASE s.ev = "CInt" -> v.i = s.i
         [] s.ev = "CReal" -> v.f = s.f
         [] s.ev = "Bool" -> v.b = s.b
         [] s.ev = "List" -> v.l = s.l
         [] OTHER -> TRUE

\* C24: eval(Var(name), env) returns the bound value, same kind and payload,
\* when name is bound to an integer, real, boolean, list or empty marker, and
\* fails with "Variable <name> not found" when name is absent or bound to a
\* function.
VarLookup ==
    (last.op = "eval" /\ last.exp.t = "Var") =>
        IF Bound(last.pre, last.exp.name) /\ LookedUp.ev # "Func"
        THEN /\ last.res.st = "Ok"
             /\ LookedUp.ev \in {"CInt", "CReal", "Bool", "List", "None"}
             /\ SameKindAndPayload(last.res.v, LookedUp)
        ELSE last.res = Err("Variable " \o last.exp.name \o " not found")

\* C24 witness: Var(f) was evaluated on an environment that binds f to a
\* function and v to a list, and failed
VarLookupWitness ==
    /\ last.op = "eval" /\ last.exp = ExpVar("f")
    /\ Bound(last.pre, "f") /\ Bound(last.pre, "v")
    /\ last.pre["f"].ev = "Func" /\ last.pre["v"].ev = "List"
    /\ last.res.st = "Err"

-----------------------------------------------------------------------------
(* The failures of Range, on the drawn ranges of SpecRange                 *)

\* What start, stop and step evaluate to; an omitted start is 0, an omitted
\* step 1
StartValue == IF inp.start.some THEN eval(inp.start.v, last.pre).res ELSE Ok(CInt(0))
StopValue == eval(inp.stop, last.pre).res
StepValue == IF inp.step.some THEN eval(inp.step.v, last.pre).res ELSE Ok(CInt(1))

\* r is a real, a list or the empty marker
Unconvertible(r) == r.st = "Ok" /\ r.v.k \in {"CReal", "List", "None"}
\* r is an integer or a boolean
Convertible(r) == r.st = "Ok" /\ r.v.k \in {"CInt", "Bool"}
\* r is integer 0 or boolean false
IsZeroStep(r) == r.st = "Ok" /\ (r.v = CInt(0) \/ r.v = Bool(FALSE))

RECURSIVE StridedUpTo(_, _, _)
\* low, low + stride, low + 2 stride, ... of the values <= high, for high
\* within i32
StridedUpTo(low, high, stride) ==
    IF low > high THEN <<>>
    ELSE <<CInt(low)>> \o
         (IF low > MaxI32 - stride THEN <<>>
          ELSE StridedUpTo(low + stride, high, stride))

\* The reverse of the ascending range from stop + |step| up to start; it is
\* empty when stop + |step| is above every i32
ReversedAscending(start, stop, mag) ==
    IF stop > MaxI32 - mag THEN <<>>
    ELSE Reverse(StridedUpTo(stop + mag, start, mag))

\* C26: for every step < 0 and all integers start and stop, the list produced
\* by Range(start, stop, step) equals the reverse of the ascending range that
\* starts at stop + |step|, uses stride |step| and is bounded above by start
\* (inclusive), for every stride magnitude.
DescendingIsReversedAscending ==
    (last.op = "eval" /\ IntegerRange /\ StepOf(inp) < 0) =>
        last.res = Ok(List(ReversedAscending(StartOf(inp), inp.stop.i, -StepOf(inp))))

-----------------------------------------------------------------------------
(* Calls of functions that read the caller's names                         *)

\* The statements of the caller:
\*   x = 1
\*   def sum(n: CInt) -> CInt:
\*       if n: res = n + sum(n - 1) else: res = 0
\*       return res
\*   def inc(x: CInt) -> CInt:
\*       x = x + 1
\*       return x
\*   def getx() -> CInt: return x
\*   x = 2
\*   t = getx()
\* the last three in one sequence: getx is declared, then x is assigned, then
\* getx is called
ScopeStmts ==
    <<Assignment("x", ExpCInt(1)),
      Func("sum", CInt(0), Some(<<Param("n", CInt(0))>>),
           Some(IfThenElse(ExpVar("n"),
                    Assignment("res", ExpAdd(ExpVar("n"),
                        Call("sum", <<ExpSub(ExpVar("n"), ExpCInt(1))>>))),
                    Assignment("res", ExpCInt(0)))),
           ExpVar("res")),
      Func("inc", CInt(0), Some(<<Param("x", CInt(0))>>),
           Some(Assignment("x", ExpAdd(ExpVar("x"), ExpCInt(1)))),
           ExpVar("x")),
      Sequence(Func("getx", CInt(0), NoneOpt, NoneOpt, ExpVar("x")),
          Sequence(Assignment("x", ExpCInt(2)),
                   Assignment("t", Call("getx", <<>>))))>>

\* The calls the caller evaluates
ScopeExprs ==
    <<Call("getx", <<>>), Call("sum", <<ExpCInt(2)>>), Call("sum", <<ExpVar("x")>>),
      Call("inc", <<ExpCInt(3)>>), Call("inc", <<ExpVar("x")>>)>>

ScopeInit ==
    /\ env = EmptyEnv
    /\ inp = 0
    /\ last = NoOp
    /\ overflowChecks \in BOOLEAN

ExecuteScope == \E i \in 1..Len(ScopeStmts) : Execute(ScopeStmts[i])
EvalScope == \E i \in 1..Len(ScopeExprs) : Eval(ScopeExprs[i])

ScopeNext == ExecuteScope \/ EvalScope

SpecScope == ScopeInit /\ [][ScopeNext]_vars

\* The function called by the last eval was declared when eval was entered
Declared ==
    /\ last.op = "eval"
    /\ Bound(last.pre, last.exp.name)

\* The caller's x when the last operation was entered, as a result
CallerX ==
    IF Bound(last.pre, "x") THEN Ok(CInt(last.pre["x"].i))
    ELSE Err("Variable x not found")

\* C27: function calls are dynamically scoped: the body and the return
\* expression of a called function see the caller's environment as it is at
\* the time of the call (with the variables assigned after the declaration
\* and with the function's own binding, so that it can call itself),
\* extended with the bound parameters, which shadow the caller's variables of
\* the same name inside the call only.
DynamicScope ==
    /\ (Declared /\ last.exp = Call("getx", <<>>)) => last.res = CallerX
    /\ (Declared /\ last.exp = Call("sum", <<ExpCInt(2)>>)) => last.res = Ok(CInt(3))
    /\ (Declared /\ last.exp = Call("sum", <<ExpVar("x")>>)) =>
           IF Bound(last.pre, "x")
           THEN last.res = Ok(CInt(Triangular(last.pre["x"].i)))
           ELSE last.res = CallerX
    /\ (Declared /\ last.exp = Call("inc", <<ExpCInt(3)>>)) => last.res = Ok(CInt(4))
    /\ (Declared /\ last.exp = Call("inc", <<ExpVar("x")>>)) =>
           IF Bound(last.pre, "x")
           THEN last.res = Ok(CInt(last.pre["x"].i + 1))
           ELSE last.res = CallerX
    /\ last.op = "eval" => env = last.pre
    /\ (last.op = "execute" /\ last.stmt = ScopeStmts[4]) =>
           /\ last.res.st = "Ok"
           /\ env["x"] = EnvCInt(2) /\ env["t"] = EnvCInt(2)
           /\ ~Bound(env, "res") /\ ~Bound(env, "n")

\* C27 witness: getx was declared while x was unbound, x was assigned 2
\* afterwards, and the call of getx that followed returned 2
DynamicScopeWitness ==
    /\ last.op = "execute" /\ last.stmt = ScopeStmts[4]
    /\ ~Bound(last.pre, "x") /\ ~Bound(last.pre, "getx")
    /\ last.res.st = "Ok"
    /\ env["t"] = EnvCInt(2)

-----------------------------------------------------------------------------
(* The kinds of scalar arithmetic, on the operands of SpecArith            *)

\* The operand with a boolean literal replaced by the integer 0 or 1
AsInteger(x) == IF x.t = "Bool" THEN ExpCInt(IF x.b THEN 1 ELSE 0) ELSE x

\* The same operation on the operands with booleans taken as 0 and 1
OnIntegers ==
    eval([t |-> inp.op, l |-> AsInteger(inp.l), r |-> AsInteger(inp.r)], last.pre).res

\* C28: the kind of the result of Add, Sub, Mul and Div on scalar operands
\* follows the coercion table for all nine kind pairs: integer with integer
\* gives integer, any pair with a real gives real, integer with boolean
\* (either order) gives integer, boolean with boolean gives integer, never
\* boolean, a boolean being treated as 0 or 1 (true + true = 2).
CoercionTable ==
    (last.op = "eval" /\ ScalarOperand(inp.l) /\ ScalarOperand(inp.r)) =>
        /\ last.res.st = "Ok" =>
               last.res.v.k = IF inp.l.t = "CReal" \/ inp.r.t = "CReal"
                              THEN "CReal" ELSE "CInt"
        /\ last.res = OnIntegers
        /\ (inp = [op |-> "Add", l |-> ExpBool(TRUE), r |-> ExpBool(TRUE)])
               => last.res = Ok(CInt(2))
        /\ (inp = [op |-> "Add", l |-> ExpCInt(2), r |-> ExpBool(TRUE)])
               => last.res = Ok(CInt(3))

\* C28 witness: boolean true times boolean true has given integer 1, and no
\* boolean
CoercionTableWitness ==
    /\ last.op = "eval"
    /\ inp = [op |-> "Mul", l |-> ExpBool(TRUE), r |-> ExpBool(TRUE)]
    /\ last.res = Ok(CInt(1))

-----------------------------------------------------------------------------
(* The frame of a For statement, on the loops of SpecFor                   *)

RECURSIVE Writes(_)
\* The names a statement can bind or remove: the targets of its assignments
\* and declarations and the variables of its loops
Writes(stmt) ==
    CASE stmt.t = "Assignment" -> {stmt.name}
      [] stmt.t = "Func" -> {stmt.name}
      [] stmt.t = "For" -> {stmt.var} \cup Writes(stmt.stmt)
      [] stmt.t = "While" -> Writes(stmt.stmt)
      [] stmt.t = "IfThenElse" -> Writes(stmt.sthen) \cup Writes(stmt.selse)
      [] stmt.t = "Sequence" -> Writes(stmt.s1) \cup Writes(stmt.s2)
      [] OTHER -> {}

\* C29: a For statement whose loop-variable name was already bound in the
\* entering environment does not restore that binding: after the loop
\* completes successfully, also over an empty list, the name is unbound and
\* the earlier value is lost, while every name that is neither the loop
\* variable nor written by the body keeps its entering binding.
LoopVarNotRestored ==
    (ForCompleted /\ Bound(last.pre, "i")) =>
        /\ ~Bound(env, "i")
        /\ \A n \in (DOMAIN last.pre) \ Writes(ForStmt(inp)) :
               Bound(env, n) /\ env[n] = last.pre[n]

\* C29 witness: a loop on i over the empty list, with the body y = y + i, has
\* completed on an environment where i was 7: i is unbound and y, log and xs
\* are what they were
LoopVarNotRestoredWitness ==
    /\ ForCompleted
    /\ inp.bound /\ inp.iter = 5 /\ inp.body = 1
    /\ last.pre["i"] = EnvCInt(7)
    /\ DOMAIN env = {"y", "log", "xs"}
    /\ env["y"] = EnvCInt(0)

-----------------------------------------------------------------------------
(* The empty marker in list literals, on the lists of SpecList             *)

=============================================================================
